---- MODULE Spec2Model ----
(***************************************************************************)
(* Graph editor / algorithm visualizer core:                               *)
(*   - the graph state reducer (context/GraphContext, src/unnamed/part_002)*)
(*   - the graph model helpers (src/src/utils/graphUtils.ts)               *)
(*   - the step producers primMST / kruskalMST (src/unnamed/part_004)      *)
(* Ids are opaque strings in the source; here they are positive integers   *)
(* and Null (0) stands for null / undefined / the empty string.            *)
(***************************************************************************)
EXTENDS Integers, Sequences, FiniteSets, TLC

VARIABLES
    state,       \* the GraphState held by useReducer
    nextId,      \* number of ids handed out by generateId so far, plus one
    lastAction,  \* the type of the GraphAction dispatched last ("INIT" initially)
    run,         \* observer of the current run of consecutive recording edits
    seen,        \* observer of the last dispatches
    viewCount,   \* number of dispatched actions that are not structural edits
    gen,         \* the step producer under execution (GenIdle in reducer runs)
    driver       \* the Sidebar: its isFinished flag, and observers of its run

vars == <<state, nextId, lastAction, run, seen, viewCount, gen, driver>>

----------------------------------------------------------------------------
(* Bounds of the model                                                     *)

MaxIds == 2          \* edit runs: generateId is called at most MaxIds times
MaxHistory == 4      \* edit runs: the history holds at most MaxHistory snapshots
MaxIdsAll == 2       \* the same two bounds for runs of the whole reducer
MaxHistoryAll == 3
MaxViewActions == 1  \* runs of the whole reducer: dispatches that are not edits
MaxPath == 1         \* ADD_PATH_STEP is taken while the path log is shorter
MaxCoord == 1        \* vertices are placed on the points (c, MaxCoord - c)
MaxWeight == 1       \* weights given to the reducer are drawn from 0..MaxWeight
SavedBase == 10      \* ids of saved graphs lie above SavedBase
MaxAlgNodes == 3     \* graphs handed to the step producers: vertices 1..n,
MaxAlgEdges == 3     \*   n <= MaxAlgNodes, at most MaxAlgEdges edges,
MaxAlgWeight == 3    \*   weights in 1..MaxAlgWeight
MaxRunIds == 2                       \* ids generated in a visualisation
MaxRunHistory == 3                   \* snapshots kept in a visualisation
MaxDriverNodes == 2                  \* vertices of the graphs the Sidebar runs on
MaxLabelIds == 3                     \* ids handed out while labels are compared
MaxLabelHistory == 4                 \* snapshots kept while labels are compared
MaxWeightIds == 3                    \* ids handed out while weights are edited
MaxWeightHistory == 4                \* snapshots kept while weights are edited
MaxLiveIds == 3                      \* ids handed out to callers that name live elements
MaxLiveHistory == 5                  \* snapshots kept for those callers
MaxBoardHistory == 3              \* snapshots kept beside a run of the Sidebar
MaxStreak == 2       \* consecutive UNDOs are counted up to MaxStreak

----------------------------------------------------------------------------
(* Values                                                                  *)

Null == 0
NoAlgorithm == "null"
NoCost == -1
NaN == -1
NoLabel == <<>>
NoStep == [type |-> "null"]
NoCount == NoCost                    \* a message that reports no number
NoAction == "INIT"

Range(s) == {s[i] : i \in DOMAIN s}
Min(a, b) == IF a < b THEN a ELSE b

RECURSIVE SetMax(_)
SetMax(S) ==
    LET x == CHOOSE y \in S : TRUE
    IN  IF S = {x} THEN x
        ELSE LET m == SetMax(S \ {x}) IN IF x > m THEN x ELSE m

EmptyGraph == [nodes |-> <<>>, edges |-> <<>>]

NodeIds(g) == {n.id : n \in Range(g.nodes)}
EdgeIds(g) == {e.id : e \in Range(g.edges)}

----------------------------------------------------------------------------
(* Labels: a label is a sequence of one-character strings.                 *)

Digits == <<"0", "1", "2", "3", "4", "5", "6", "7", "8", "9">>

IsDigit(c) == \E i \in DOMAIN Digits : Digits[i] = c
DigitVal(c) == (CHOOSE i \in DOMAIN Digits : Digits[i] = c) - 1

\* parseInt on texts without sign or leading blanks: the value of the
\* longest prefix of decimal digits, NaN when that prefix is empty.
RECURSIVE ParseDigits(_, _, _)
ParseDigits(s, i, acc) ==
    IF i > Len(s) \/ ~IsDigit(s[i]) THEN acc
    ELSE ParseDigits(s, i + 1, acc * 10 + DigitVal(s[i]))

parseInt(s) == IF Len(s) = 0 \/ ~IsDigit(s[1]) THEN NaN ELSE ParseDigits(s, 1, 0)

\* Number.prototype.toString for a natural number
RECURSIVE toString(_)
toString(n) ==
    IF n < 10 THEN <<Digits[n + 1]>>
    ELSE Append(toString(n \div 10), Digits[(n % 10) + 1])

getNextNodeLabel(nodes) ==
    LET numericLabels == {parseInt(nodes[i].label) : i \in DOMAIN nodes} \ {NaN}
    IN  IF numericLabels = {} THEN <<"1">>
        ELSE toString(SetMax(numericLabels) + 1)

----------------------------------------------------------------------------
(* The reducer                                                             *)

initialState ==
    [ graph          |-> EmptyGraph,
      selectedNodeId |-> Null,
      selectedEdgeId |-> Null,
      algorithm      |-> NoAlgorithm,
      isRunning      |-> FALSE,
      speed          |-> 500,
      currentStep    |-> NoStep,
      startNodeId    |-> Null,
      totalMSTCost   |-> NoCost,
      pathTaken      |-> <<>>,
      history        |-> <<EmptyGraph>>,
      historyIndex   |-> 0,
      visitedNodes   |-> {},
      completedNodes |-> {} ]

\* variant: the snapshot under the cursor is dropped as well
addToHistory_sliceShort(s) ==
    LET newHistory == SubSeq(s.history, 1, Min(s.historyIndex, Len(s.history)))
    IN  [s EXCEPT !.history = Append(newHistory, s.graph),
                  !.historyIndex = s.historyIndex + 1]

\* variant: the snapshot is appended to the whole history
addToHistory_noTruncate(s) ==
    [s EXCEPT !.history = Append(s.history, s.graph),
              !.historyIndex = s.historyIndex + 1]

\* history.slice(0, historyIndex + 1) followed by a copy of the live graph;
\* the copy is by value (fresh node and edge objects with the same fields).
addToHistory(s) ==
    LET newHistory == SubSeq(s.history, 1, Min(s.historyIndex + 1, Len(s.history)))
    IN  [s EXCEPT !.history = Append(newHistory, s.graph),
                  !.historyIndex = s.historyIndex + 1]

ADD_NODE(s, a, id) ==
    LET nodeLabel == IF a.label # NoLabel THEN a.label
                     ELSE getNextNodeLabel(s.graph.nodes)
        newNode == [id |-> id, x |-> a.x, y |-> a.y, label |-> nodeLabel,
                    status |-> "default"]
    IN  addToHistory([s EXCEPT !.graph.nodes = Append(s.graph.nodes, newNode),
                               !.selectedNodeId = id,
                               !.selectedEdgeId = Null])

\* variant: the vertex is removed, its edges are kept
DELETE_NODE_keepsEdges(s, a) ==
    LET newNodes == SelectSeq(s.graph.nodes, LAMBDA node : node.id # a.nodeId)
    IN  addToHistory([s EXCEPT !.graph.nodes = newNodes,
                               !.selectedNodeId = Null,
                               !.startNodeId = IF s.startNodeId = a.nodeId
                                               THEN Null ELSE s.startNodeId])

\* variant: only the edges leaving the vertex are removed
DELETE_NODE_fromOnly(s, a) ==
    LET newNodes == SelectSeq(s.graph.nodes, LAMBDA node : node.id # a.nodeId)
        newEdges == SelectSeq(s.graph.edges, LAMBDA edge : edge.from # a.nodeId)
    IN  addToHistory([s EXCEPT !.graph = [nodes |-> newNodes, edges |-> newEdges],
                               !.selectedNodeId = Null,
                               !.startNodeId = IF s.startNodeId = a.nodeId
                                               THEN Null ELSE s.startNodeId])

DELETE_NODE(s, a) ==
    LET newNodes == SelectSeq(s.graph.nodes, LAMBDA node : node.id # a.nodeId)
        newEdges == SelectSeq(s.graph.edges,
                        LAMBDA edge : edge.from # a.nodeId /\ edge.to # a.nodeId)
    IN  addToHistory([s EXCEPT !.graph = [nodes |-> newNodes, edges |-> newEdges],
                               !.selectedNodeId = Null,
                               !.startNodeId = IF s.startNodeId = a.nodeId
                                               THEN Null ELSE s.startNodeId])

SELECT_NODE(s, a) ==
    [s EXCEPT !.selectedNodeId = a.nodeId, !.selectedEdgeId = Null]

\* variant: the snapshot under the cursor shares the live vertices
MOVE_NODE_aliased(s, a) ==
    LET moved == [i \in DOMAIN s.graph.nodes |->
                    IF s.graph.nodes[i].id = a.nodeId
                    THEN [s.graph.nodes[i] EXCEPT !.x = a.x, !.y = a.y]
                    ELSE s.graph.nodes[i]]
    IN  [s EXCEPT !.graph.nodes = moved,
                  !.history[s.historyIndex + 1].nodes = moved]

MOVE_NODE(s, a) ==
    [s EXCEPT !.graph.nodes =
        [i \in DOMAIN s.graph.nodes |->
            IF s.graph.nodes[i].id = a.nodeId
            THEN [s.graph.nodes[i] EXCEPT !.x = a.x, !.y = a.y]
            ELSE s.graph.nodes[i]]]

\* variant: only the stored direction is compared
existingEdge_oneWay(s, a) ==
    \E edge \in Range(s.graph.edges) :
        edge.from = a.fromNodeId /\ edge.to = a.toNodeId

\* the find(...) of ADD_EDGE: is there an edge between the two ids, in
\* either stored direction
existingEdge(s, a) ==
    \E edge \in Range(s.graph.edges) :
        \/ edge.from = a.fromNodeId /\ edge.to = a.toNodeId
        \/ edge.from = a.toNodeId /\ edge.to = a.fromNodeId

\* variant: no look-up of an existing edge
ADD_EDGE_unchecked(s, a, id) ==
    LET newEdge == [id |-> id, from |-> a.fromNodeId, to |-> a.toNodeId,
                    weight |-> IF a.weight # 0 THEN a.weight ELSE 1,
                    status |-> "default"]
    IN  addToHistory([s EXCEPT !.graph.edges = Append(s.graph.edges, newEdge),
                               !.selectedEdgeId = id,
                               !.selectedNodeId = Null])

\* variant: the new edge ends where it starts
ADD_EDGE_sameEnds(s, a, id) ==
    IF existingEdge(s, a) THEN s
    ELSE LET newEdge == [id |-> id, from |-> a.fromNodeId, to |-> a.fromNodeId,
                         weight |-> IF a.weight # 0 THEN a.weight ELSE 1,
                         status |-> "default"]
         IN  addToHistory([s EXCEPT !.graph.edges = Append(s.graph.edges, newEdge),
                                    !.selectedEdgeId = id,
                                    !.selectedNodeId = Null])

ADD_EDGE(s, a, id) ==
    IF existingEdge(s, a) THEN s
    ELSE LET newEdge == [id |-> id, from |-> a.fromNodeId, to |-> a.toNodeId,
                         weight |-> IF a.weight # 0 THEN a.weight ELSE 1,
                         status |-> "default"]
         IN  addToHistory([s EXCEPT !.graph.edges = Append(s.graph.edges, newEdge),
                                    !.selectedEdgeId = id,
                                    !.selectedNodeId = Null])

DELETE_EDGE(s, a) ==
    addToHistory([s EXCEPT
        !.graph.edges = SelectSeq(s.graph.edges, LAMBDA edge : edge.id # a.edgeId),
        !.selectedEdgeId = Null])

\* variant: the selected vertex stays selected
SELECT_EDGE_keepsNode(s, a) ==
    [s EXCEPT !.selectedEdgeId = a.edgeId]

SELECT_EDGE(s, a) ==
    [s EXCEPT !.selectedEdgeId = a.edgeId, !.selectedNodeId = Null]

UPDATE_EDGE_WEIGHT(s, a) ==
    addToHistory([s EXCEPT !.graph.edges =
        [i \in DOMAIN s.graph.edges |->
            IF s.graph.edges[i].id = a.edgeId
            THEN [s.graph.edges[i] EXCEPT !.weight = a.weight]
            ELSE s.graph.edges[i]]])

SET_ALGORITHM(s, a) ==
    [s EXCEPT !.algorithm = a.algorithm,
              !.totalMSTCost = NoCost,
              !.pathTaken = <<>>,
              !.visitedNodes = {},
              !.completedNodes = {}]

SET_RUNNING(s, a) == [s EXCEPT !.isRunning = a.isRunning]

SET_SPEED(s, a) == [s EXCEPT !.speed = a.speed]

\* variant: the vertex the step names is painted before the completed ones
nodeStatus_currentFirst(s, step, visitedNodes, completedNodes, node) ==
    IF node.id = s.startNodeId THEN "start"
    ELSE IF step.type \in {"processNode", "addToMST"} /\ step.nodeId = node.id
         THEN "current"
    ELSE IF node.id \in completedNodes THEN "completed"
    ELSE IF node.id \in visitedNodes THEN "visited"
    ELSE "default"

\* variant: a completed vertex is painted before the start vertex
nodeStatus_completedFirst(s, step, visitedNodes, completedNodes, node) ==
    IF node.id \in completedNodes THEN "completed"
    ELSE IF node.id = s.startNodeId THEN "start"
    ELSE IF step.type \in {"processNode", "addToMST"} /\ step.nodeId = node.id
         THEN "current"
    ELSE IF node.id \in visitedNodes THEN "visited"
    ELSE "default"

\* status painting of SET_CURRENT_STEP for one vertex, by descending priority
nodeStatus(s, step, visitedNodes, completedNodes, node) ==
    IF node.id = s.startNodeId THEN "start"
    ELSE IF node.id \in completedNodes THEN "completed"
    ELSE IF step.type \in {"processNode", "addToMST"} /\ step.nodeId = node.id
         THEN "current"
    ELSE IF node.id \in visitedNodes THEN "visited"
    ELSE "default"

\* variant: only visitEdge paints the edge as current
edgeStatus_visitEdgeOnly(step) ==
    IF step.type = "visitEdge" THEN "current"
    ELSE IF step.type \in {"addToMST", "traverseEdge", "mst"} THEN "visited"
    ELSE "default"

\* status painting of SET_CURRENT_STEP for the edge the step names
edgeStatus(step) ==
    IF step.type \in {"visitEdge", "currentEdge"} THEN "current"
    ELSE IF step.type \in {"addToMST", "traverseEdge", "mst"} THEN "visited"
    ELSE "default"

SET_CURRENT_STEP(s, a) ==
    IF a.step = NoStep
    THEN [s EXCEPT
            !.currentStep = NoStep,
            !.graph = [nodes |-> [i \in DOMAIN s.graph.nodes |->
                                    [s.graph.nodes[i] EXCEPT !.status = "default"]],
                       edges |-> [i \in DOMAIN s.graph.edges |->
                                    [s.graph.edges[i] EXCEPT !.status = "default"]]],
            !.visitedNodes = {},
            !.completedNodes = {}]
    ELSE
      LET step == a.step
          visitedNodes ==
              IF step.nodeId # Null /\ step.type \in {"visitNode", "processNode"}
              THEN s.visitedNodes \cup {step.nodeId} ELSE s.visitedNodes
          completedNodes ==
              IF step.nodeId # Null /\ step.type \in {"completeNode", "addToMST"}
              THEN s.completedNodes \cup {step.nodeId} ELSE s.completedNodes
          newNodes == [i \in DOMAIN s.graph.nodes |->
              [s.graph.nodes[i] EXCEPT !.status =
                  nodeStatus(s, step, visitedNodes, completedNodes, s.graph.nodes[i])]]
          newEdges ==
              IF step.edgeId # Null
              THEN [i \in DOMAIN s.graph.edges |->
                      IF s.graph.edges[i].id = step.edgeId
                      THEN [s.graph.edges[i] EXCEPT !.status = edgeStatus(step)]
                      ELSE s.graph.edges[i]]
              ELSE s.graph.edges
      IN  [s EXCEPT !.currentStep = step,
                    !.graph = [nodes |-> newNodes, edges |-> newEdges],
                    !.visitedNodes = visitedNodes,
                    !.completedNodes = completedNodes]

RESET_GRAPH_STATUS(s) ==
    [s EXCEPT
        !.graph = [nodes |-> [i \in DOMAIN s.graph.nodes |->
                                [s.graph.nodes[i] EXCEPT !.status = "default"]],
                   edges |-> [i \in DOMAIN s.graph.edges |->
                                [s.graph.edges[i] EXCEPT !.status = "default"]]],
        !.currentStep = NoStep,
        !.totalMSTCost = NoCost,
        !.pathTaken = <<>>,
        !.visitedNodes = {},
        !.completedNodes = {}]

\* the new state is built from initialState (its history and cursor
\* included), only the speed is taken from the current state
CLEAR_GRAPH(s) ==
    addToHistory([initialState EXCEPT !.speed = s.speed])

SET_START_NODE(s, a) ==
    [s EXCEPT
        !.startNodeId = a.nodeId,
        !.graph = [nodes |-> [i \in DOMAIN s.graph.nodes |->
                                [s.graph.nodes[i] EXCEPT !.status =
                                    IF s.graph.nodes[i].id = a.nodeId
                                    THEN "start" ELSE "default"]],
                   edges |-> [i \in DOMAIN s.graph.edges |->
                                [s.graph.edges[i] EXCEPT !.status = "default"]]],
        !.visitedNodes = {},
        !.completedNodes = {}]

ADD_PATH_STEP(s, a) == [s EXCEPT !.pathTaken = Append(s.pathTaken, a.step)]

CLEAR_PATH(s) == [s EXCEPT !.pathTaken = <<>>]

SET_TOTAL_MST_COST(s, a) == [s EXCEPT !.totalMSTCost = a.cost]

\* variant: undoing also drops the step on display
UNDO_clearsStep(s) ==
    IF s.historyIndex > 0
    THEN LET newIndex == s.historyIndex - 1
         IN  [s EXCEPT !.graph = s.history[newIndex + 1],
                       !.historyIndex = newIndex,
                       !.selectedNodeId = Null,
                       !.selectedEdgeId = Null,
                       !.currentStep = NoStep]
    ELSE s

UNDO(s) ==
    IF s.historyIndex > 0
    THEN LET newIndex == s.historyIndex - 1
         IN  [s EXCEPT !.graph = s.history[newIndex + 1],
                       !.historyIndex = newIndex,
                       !.selectedNodeId = Null,
                       !.selectedEdgeId = Null]
    ELSE s

REDO(s) ==
    IF s.historyIndex < Len(s.history) - 1
    THEN LET newIndex == s.historyIndex + 1
         IN  [s EXCEPT !.graph = s.history[newIndex + 1],
                       !.historyIndex = newIndex,
                       !.selectedNodeId = Null,
                       !.selectedEdgeId = Null]
    ELSE s

LOAD_SAVED_GRAPH(s, a) ==
    addToHistory([s EXCEPT !.graph = a.graph,
                           !.selectedNodeId = Null,
                           !.selectedEdgeId = Null,
                           !.algorithm = NoAlgorithm,
                           !.isRunning = FALSE,
                           !.currentStep = NoStep,
                           !.totalMSTCost = NoCost,
                           !.pathTaken = <<>>,
                           !.visitedNodes = {},
                           !.completedNodes = {}])

\* graphReducer(state, action); id is the value generateId returns when the
\* case calls it
graphReducer(s, a, id) ==
    CASE a.type = "ADD_NODE"           -> ADD_NODE(s, a, id)
      [] a.type = "DELETE_NODE"        -> DELETE_NODE(s, a)
      [] a.type = "SELECT_NODE"        -> SELECT_NODE(s, a)
      [] a.type = "MOVE_NODE"          -> MOVE_NODE(s, a)
      [] a.type = "ADD_EDGE"           -> ADD_EDGE(s, a, id)
      [] a.type = "DELETE_EDGE"        -> DELETE_EDGE(s, a)
      [] a.type = "SELECT_EDGE"        -> SELECT_EDGE(s, a)
      [] a.type = "UPDATE_EDGE_WEIGHT" -> UPDATE_EDGE_WEIGHT(s, a)
      [] a.type = "SET_ALGORITHM"      -> SET_ALGORITHM(s, a)
      [] a.type = "SET_RUNNING"        -> SET_RUNNING(s, a)
      [] a.type = "SET_SPEED"          -> SET_SPEED(s, a)
      [] a.type = "SET_CURRENT_STEP"   -> SET_CURRENT_STEP(s, a)
      [] a.type = "RESET_GRAPH_STATUS" -> RESET_GRAPH_STATUS(s)
      [] a.type = "CLEAR_GRAPH"        -> CLEAR_GRAPH(s)
      [] a.type = "SET_START_NODE"     -> SET_START_NODE(s, a)
      [] a.type = "SET_TOTAL_MST_COST" -> SET_TOTAL_MST_COST(s, a)
      [] a.type = "ADD_PATH_STEP"      -> ADD_PATH_STEP(s, a)
      [] a.type = "CLEAR_PATH"         -> CLEAR_PATH(s)
      [] a.type = "UNDO"               -> UNDO(s)
      [] a.type = "REDO"               -> REDO(s)
      [] a.type = "LOAD_SAVED_GRAPH"   -> LOAD_SAVED_GRAPH(s, a)
      [] OTHER                         -> s

\* the cases of graphReducer that call generateId, and when they do
callsGenerateId(s, a) ==
    \/ a.type = "ADD_NODE"
    \/ a.type = "ADD_EDGE" /\ ~existingEdge(s, a)

\* the cases that end in addToHistory
recordsHistory(s, a) ==
    \/ a.type \in {"ADD_NODE", "DELETE_NODE", "DELETE_EDGE", "UPDATE_EDGE_WEIGHT",
                   "CLEAR_GRAPH", "LOAD_SAVED_GRAPH"}
    \/ a.type = "ADD_EDGE" /\ ~existingEdge(s, a)

----------------------------------------------------------------------------
(* Inputs of the dispatched actions                                        *)

Coords == 0..MaxCoord
Points == {[x |-> c, y |-> MaxCoord - c] : c \in Coords}
Weights == 0..MaxWeight              \* 0: weight absent (or zero)
Labels == {NoLabel, <<"7">>}
Algorithms == {"prim", "kruskal", "bfs", "dfs", NoAlgorithm}
Speeds == {500, 200}
Costs == {NoCost, 7}
NodeStepTypes == {"visitNode", "processNode", "completeNode"}
EdgeStepTypes == {"visitEdge", "currentEdge", "skipEdge", "mst"}
BothStepTypes == {"addToMST", "traverseEdge"}

Step(type, nodeId, edgeId, totalCost, pathStep) ==
    [type |-> type, nodeId |-> nodeId, edgeId |-> edgeId,
     totalCost |-> totalCost, pathStep |-> pathStep,
     message |-> "", count |-> NoCount]

\* variant: the last step carries no cost
Done_noCost(message, count, totalCost, pathStep) ==
    [type |-> "done", nodeId |-> Null, edgeId |-> Null, totalCost |-> NoCost,
     pathStep |-> pathStep, message |-> message, count |-> count]

\* a done step: what its message says ("noStart", "disconnected",
\* "completed", "starting") and the number the message reports, if any
Done(message, count, totalCost, pathStep) ==
    [type |-> "done", nodeId |-> Null, edgeId |-> Null,
     totalCost |-> totalCost, pathStep |-> pathStep,
     message |-> message, count |-> count]

\* steps handed to SET_CURRENT_STEP, in the shapes the producers yield:
\* naming a vertex, an edge, both, or nothing
StepsOf(ids) ==
    {NoStep, Step("done", Null, Null, NoCost, "")}
    \cup {Step(t, n, Null, NoCost, "") : t \in NodeStepTypes, n \in ids}
    \cup {Step(t, Null, e, NoCost, "") : t \in EdgeStepTypes, e \in ids}
    \cup {Step(t, n, e, NoCost, "") : t \in BothStepTypes, n \in ids, e \in ids}

Node(id, x, y, label, status) ==
    [id |-> id, x |-> x, y |-> y, label |-> label, status |-> status]
Edge(id, from, to, weight, status) ==
    [id |-> id, from |-> from, to |-> to, weight |-> weight, status |-> status]

\* graphs handed to LOAD_SAVED_GRAPH: payloads saved by earlier sessions
\* (their ids are not ids this session generates), statuses as they were
\* when saved
\* (vertices SavedBase + 1 .. + 3, edges SavedBase + 4 and + 5)
SavedGraphs ==
    { [nodes |-> <<Node(SavedBase + 1, 0, 0, <<"1">>, "start"),
                   Node(SavedBase + 2, 1, 0, <<"A">>, "default"),
                   Node(SavedBase + 3, 0, 1, <<"3">>, "default")>>,
       edges |-> <<Edge(SavedBase + 4, SavedBase + 2, SavedBase + 1, 2, "visited"),
                   Edge(SavedBase + 5, SavedBase + 2, SavedBase + 3, 1, "default")>>],
      [nodes |-> <<Node(SavedBase + 1, 0, 0, <<"1">>, "default")>>, edges |-> <<>>] }

SavedNodeId == SavedBase + 1         \* the saved vertex that actions name
SavedEdgeId == SavedBase + 4         \* the saved edge that actions name

\* What a specification lets the dispatcher do: how many ids and snapshots,
\* which labels, vertex ids, edge ids and positions the actions are given,
\* which ids the steps name, and whether the observers are kept.
EditProfile ==
    [maxIds |-> MaxIds, maxHistory |-> MaxHistory, labels |-> {NoLabel},
     nodeIds |-> 1..MaxIds, edgeIds |-> 1..MaxIds, stepIds |-> 1..MaxIds,
     points |-> Points, observe |-> TRUE, track |-> FALSE, boundViews |-> TRUE,
     steps |-> StepsOf(1..MaxIds), algorithms |-> Algorithms, saved |-> SavedGraphs]
FullProfile ==
    [maxIds |-> MaxIdsAll, maxHistory |-> MaxHistoryAll, labels |-> {NoLabel},
     nodeIds |-> {1, SavedNodeId}, edgeIds |-> {MaxIdsAll, SavedEdgeId},
     stepIds |-> {SavedNodeId, SavedEdgeId},
     points |-> {[x |-> MaxCoord, y |-> 0]}, observe |-> FALSE, track |-> FALSE,
     boundViews |-> TRUE, steps |-> StepsOf({SavedNodeId, SavedEdgeId}),
     algorithms |-> Algorithms, saved |-> SavedGraphs]

\* the steps of a visualisation: the four kinds that name a vertex, one
\* that names only an edge, the last step of a producer and the null step
RunSteps(ids) ==
    {NoStep, Step("done", Null, Null, NoCost, ""),
     Step("visitEdge", Null, MaxRunIds, NoCost, "")}
    \cup {Step(t, n, Null, NoCost, "") : t \in NodeStepTypes, n \in ids}
    \cup {Step("addToMST", n, MaxRunIds, NoCost, "") : n \in ids}

\* a visualisation on a graph of up to MaxRunIds vertices: steps, start
\* vertex and resets without a bound on their number, between edits
RunProfile ==
    [maxIds |-> MaxRunIds, maxHistory |-> MaxRunHistory, labels |-> {NoLabel},
     nodeIds |-> 1..MaxRunIds, edgeIds |-> 1..MaxRunIds, stepIds |-> 1..MaxRunIds,
     points |-> {[x |-> 0, y |-> 0]}, observe |-> FALSE, track |-> TRUE,
     boundViews |-> FALSE, steps |-> RunSteps(1..MaxRunIds),
     algorithms |-> {"bfs"},
     saved |-> {[nodes |-> <<Node(SavedBase + 1, 0, 0, <<"1">>, "default")>>,
                 edges |-> <<>>]}]

NodeArgs(P) == P.nodeIds             \* vertex ids, in the graph or not
EdgeArgs(P) == P.edgeIds             \* edge ids, in the graph or not

EditTypes == {"ADD_NODE", "DELETE_NODE", "MOVE_NODE", "ADD_EDGE", "DELETE_EDGE",
              "UPDATE_EDGE_WEIGHT", "CLEAR_GRAPH", "UNDO", "REDO",
              "LOAD_SAVED_GRAPH"}

----------------------------------------------------------------------------
(* Observers (not program state).                                          *)
(* run: the current run of n consecutive actions that ended in             *)
(*   addToHistory: g0, gN the live graph before the first / after the last *)
(*   of them; undos the UNDOs dispatched since, redos the REDOs after      *)
(*   those.                                                                *)
(* seen: recorded    the last action ended in addToHistory                 *)
(*       undoStreak  consecutive UNDOs up to and including the last        *)
(*                   action (counted up to MaxStreak)                      *)
(*       afterUndos  the streak before the last action                     *)
(*       ahead       snapshots ahead of the cursor before the last action  *)
(*       callerOk    every ADD_EDGE so far named two live vertices         *)
(*       distinctEnds  every ADD_EDGE so far named two different ids       *)
(*       named       the vertex ids named by the completeNode and addToMST *)
(*                   steps applied since the last action that ends a       *)
(*                   visualisation (kept by the profiles that track it)    *)

FreshRun(g) == [g0 |-> g, gN |-> g, n |-> 0, undos |-> 0, redos |-> 0]

ObserveRun(r, s, a, s2, maxRun) ==
    IF recordsHistory(s, a)
    THEN IF r.undos = 0 /\ r.redos = 0 /\ r.n < maxRun
         THEN [r EXCEPT !.gN = s2.graph, !.n = r.n + 1]
         ELSE [FreshRun(s.graph) EXCEPT !.gN = s2.graph, !.n = 1]
    ELSE IF a.type = "UNDO" /\ r.n > 0 /\ r.redos = 0 /\ r.undos < r.n
         THEN [r EXCEPT !.undos = r.undos + 1]
    ELSE IF a.type = "REDO" /\ r.n > 0 /\ r.undos = r.n /\ r.redos < r.n
         THEN [r EXCEPT !.redos = r.redos + 1]
    ELSE FreshRun(s2.graph)

NothingSeen ==
    [recorded |-> FALSE, undoStreak |-> 0, afterUndos |-> 0, ahead |-> 0,
     callerOk |-> TRUE, distinctEnds |-> TRUE, named |-> {}]

Observe(o, s, a) ==
    [recorded   |-> recordsHistory(s, a),
     undoStreak |-> IF a.type = "UNDO" THEN Min(o.undoStreak + 1, MaxStreak) ELSE 0,
     afterUndos |-> o.undoStreak,
     ahead      |-> Len(s.history) - 1 - s.historyIndex,
     callerOk   |-> /\ o.callerOk
                    /\ a.type = "ADD_EDGE" =>
                          {a.fromNodeId, a.toNodeId} \subseteq NodeIds(s.graph),
     distinctEnds |-> /\ o.distinctEnds
                      /\ a.type = "ADD_EDGE" => a.fromNodeId # a.toNodeId,
     named      |-> o.named]

\* the actions that end a visualisation
EndsRun(a) ==
    \/ a.type \in {"RESET_GRAPH_STATUS", "SET_START_NODE", "SET_ALGORITHM",
                   "CLEAR_GRAPH", "LOAD_SAVED_GRAPH"}
    \/ a.type = "SET_CURRENT_STEP" /\ a.step = NoStep

Track(o, a) ==
    [o EXCEPT !.named =
        IF EndsRun(a) THEN {}
        ELSE IF /\ a.type = "SET_CURRENT_STEP"
                /\ a.step.type \in {"completeNode", "addToMST"}
                /\ a.step.nodeId # Null
        THEN o.named \cup {a.step.nodeId}
        ELSE o.named]

----------------------------------------------------------------------------
(* The dispatcher: one action of the model per action type of the reducer  *)

GenIdle == [alg |-> NoAlgorithm, pc |-> "idle"]

\* the Sidebar before any run: isFinished as useState(false) leaves it;
\* applied (observer): the steps dispatched as SET_CURRENT_STEP since the
\* producer was created; retired (observer): the producer was there when
\* the run was reset or an algorithm was selected, and no Start has created
\* a new one since
DriverIdle == [isFinished |-> FALSE, applied |-> <<>>, retired |-> FALSE]

Dispatch(P, a) ==
    /\ callsGenerateId(state, a) => nextId <= P.maxIds
    /\ (recordsHistory(state, a) /\ a.type # "CLEAR_GRAPH")
            => state.historyIndex < P.maxHistory - 1
    /\ (P.boundViews /\ a.type \notin EditTypes) => viewCount < MaxViewActions
    /\ state' = graphReducer(state, a, nextId)
    /\ nextId' = IF callsGenerateId(state, a) THEN nextId + 1 ELSE nextId
    /\ run' = IF P.observe
              THEN ObserveRun(run, state, a, state', P.maxHistory - 1)
              ELSE run
    /\ seen' = LET o == IF P.observe THEN Observe(seen, state, a) ELSE seen
               IN  IF P.track THEN Track(o, a) ELSE o
    /\ viewCount' = IF P.boundViews /\ a.type \notin EditTypes
                    THEN viewCount + 1 ELSE viewCount
    /\ UNCHANGED <<gen, driver>>

AddNode(P) ==
    \E p \in P.points, label \in P.labels :
        /\ Dispatch(P, [type |-> "ADD_NODE", x |-> p.x, y |-> p.y, label |-> label])
        /\ lastAction' = "ADD_NODE"

DeleteNode(P) ==
    \E id \in NodeArgs(P) :
        /\ Dispatch(P, [type |-> "DELETE_NODE", nodeId |-> id])
        /\ lastAction' = "DELETE_NODE"

SelectNode(P) ==
    \E id \in {Null} \cup NodeArgs(P) :
        /\ Dispatch(P, [type |-> "SELECT_NODE", nodeId |-> id])
        /\ lastAction' = "SELECT_NODE"

MoveNode(P) ==
    \E id \in NodeArgs(P), p \in P.points :
        /\ Dispatch(P, [type |-> "MOVE_NODE", nodeId |-> id, x |-> p.x, y |-> p.y])
        /\ lastAction' = "MOVE_NODE"

AddEdge(P) ==
    \E from \in NodeArgs(P), to \in NodeArgs(P), w \in Weights :
        /\ Dispatch(P, [type |-> "ADD_EDGE", fromNodeId |-> from,
                        toNodeId |-> to, weight |-> w])
        /\ lastAction' = "ADD_EDGE"

DeleteEdge(P) ==
    \E id \in EdgeArgs(P) :
        /\ Dispatch(P, [type |-> "DELETE_EDGE", edgeId |-> id])
        /\ lastAction' = "DELETE_EDGE"

SelectEdge(P) ==
    \E id \in {Null} \cup EdgeArgs(P) :
        /\ Dispatch(P, [type |-> "SELECT_EDGE", edgeId |-> id])
        /\ lastAction' = "SELECT_EDGE"

UpdateEdgeWeight(P) ==
    \E id \in EdgeArgs(P), w \in Weights :
        /\ Dispatch(P, [type |-> "UPDATE_EDGE_WEIGHT", edgeId |-> id, weight |-> w])
        /\ lastAction' = "UPDATE_EDGE_WEIGHT"

SetAlgorithm(P) ==
    \E alg \in P.algorithms :
        /\ Dispatch(P, [type |-> "SET_ALGORITHM", algorithm |-> alg])
        /\ lastAction' = "SET_ALGORITHM"

SetRunning(P) ==
    \E b \in BOOLEAN :
        /\ Dispatch(P, [type |-> "SET_RUNNING", isRunning |-> b])
        /\ lastAction' = "SET_RUNNING"

SetSpeed(P) ==
    \E sp \in Speeds :
        /\ Dispatch(P, [type |-> "SET_SPEED", speed |-> sp])
        /\ lastAction' = "SET_SPEED"

SetCurrentStep(P) ==
    \E st \in P.steps :
        /\ Dispatch(P, [type |-> "SET_CURRENT_STEP", step |-> st])
        /\ lastAction' = "SET_CURRENT_STEP"

ResetGraphStatus(P) ==
    /\ Dispatch(P, [type |-> "RESET_GRAPH_STATUS"])
    /\ lastAction' = "RESET_GRAPH_STATUS"

ClearGraph(P) ==
    /\ Dispatch(P, [type |-> "CLEAR_GRAPH"])
    /\ lastAction' = "CLEAR_GRAPH"

SetStartNode(P) ==
    \E id \in {Null} \cup NodeArgs(P) :
        /\ Dispatch(P, [type |-> "SET_START_NODE", nodeId |-> id])
        /\ lastAction' = "SET_START_NODE"

SetTotalMSTCost(P) ==
    \E c \in Costs :
        /\ Dispatch(P, [type |-> "SET_TOTAL_MST_COST", cost |-> c])
        /\ lastAction' = "SET_TOTAL_MST_COST"

AddPathStep(P) ==
    /\ Len(state.pathTaken) < MaxPath
    /\ Dispatch(P, [type |-> "ADD_PATH_STEP", step |-> "note"])
    /\ lastAction' = "ADD_PATH_STEP"

ClearPath(P) ==
    /\ Dispatch(P, [type |-> "CLEAR_PATH"])
    /\ lastAction' = "CLEAR_PATH"

Undo(P) ==
    /\ Dispatch(P, [type |-> "UNDO"])
    /\ lastAction' = "UNDO"

Redo(P) ==
    /\ Dispatch(P, [type |-> "REDO"])
    /\ lastAction' = "REDO"

LoadSavedGraph(P) ==
    \E g \in P.saved :
        /\ Dispatch(P, [type |-> "LOAD_SAVED_GRAPH", graph |-> g])
        /\ lastAction' = "LOAD_SAVED_GRAPH"

Init ==
    /\ state = initialState
    /\ nextId = 1
    /\ lastAction = NoAction
    /\ run = FreshRun(EmptyGraph)
    /\ seen = NothingSeen
    /\ viewCount = 0
    /\ gen = GenIdle
    /\ driver = DriverIdle

\* the structural edit actions
EditActions(P) ==
    \/ AddNode(P)
    \/ DeleteNode(P)
    \/ MoveNode(P)
    \/ AddEdge(P)
    \/ DeleteEdge(P)
    \/ UpdateEdgeWeight(P)
    \/ ClearGraph(P)
    \/ Undo(P)
    \/ Redo(P)

\* the other actions of the reducer, LOAD_SAVED_GRAPH aside
OtherActions(P) ==
    \/ SelectNode(P)
    \/ SelectEdge(P)
    \/ SetAlgorithm(P)
    \/ SetRunning(P)
    \/ SetSpeed(P)
    \/ SetCurrentStep(P)
    \/ ResetGraphStatus(P)
    \/ SetStartNode(P)
    \/ SetTotalMSTCost(P)
    \/ AddPathStep(P)
    \/ ClearPath(P)

\* edit actions with arbitrary arguments
NextEdit == EditActions(EditProfile)
SpecEdit == Init /\ [][NextEdit]_vars

\* every action of the reducer but LOAD_SAVED_GRAPH
NextNoLoad == EditActions(FullProfile) \/ OtherActions(FullProfile)
SpecNoLoad == Init /\ [][NextNoLoad]_vars

\* every action of the reducer
Next == NextNoLoad \/ LoadSavedGraph(FullProfile)
Spec == Init /\ [][Next]_vars

\* a visualisation: steps applied to a small graph, between edits and the
\* actions that end a visualisation
NextRun ==
    \/ AddNode(RunProfile)
    \/ DeleteNode(RunProfile)
    \/ Undo(RunProfile)
    \/ ClearGraph(RunProfile)
    \/ LoadSavedGraph(RunProfile)
    \/ SetAlgorithm(RunProfile)
    \/ SetCurrentStep(RunProfile)
    \/ ResetGraphStatus(RunProfile)
    \/ SetStartNode(RunProfile)
SpecRun == Init /\ [][NextRun]_vars

\* labelling: vertices added with a label of the caller's and without one,
\* on a graph of up to MaxLabelIds vertices and edges
LabelTexts == {<<"7">>, <<"3", "x">>, <<"A">>}

LabelProfile ==
    [maxIds |-> MaxLabelIds, maxHistory |-> MaxLabelHistory, labels |-> LabelTexts,
     nodeIds |-> 1..MaxLabelIds, edgeIds |-> 1..MaxLabelIds,
     stepIds |-> 1..MaxLabelIds,
     points |-> {[x |-> 0, y |-> 0]}, observe |-> FALSE, track |-> FALSE,
     boundViews |-> FALSE, steps |-> {NoStep}, algorithms |-> {NoAlgorithm},
     saved |-> {EmptyGraph}]

\* dispatch of ADD_NODE with the label left out
AddNodeNoLabel(P) ==
    \E p \in P.points :
        /\ Dispatch(P, [type |-> "ADD_NODE", x |-> p.x, y |-> p.y,
                        label |-> NoLabel])
        /\ lastAction' = "ADD_NODE without label"

NextLabel ==
    \/ AddNode(LabelProfile)
    \/ AddNodeNoLabel(LabelProfile)
    \/ DeleteNode(LabelProfile)
    \/ AddEdge(LabelProfile)
    \/ SelectEdge(LabelProfile)
    \/ Undo(LabelProfile)
SpecLabel == Init /\ [][NextLabel]_vars

\* the weight field of the Sidebar: what its change handler dispatches for
\* the text of the field (NoDispatch: nothing)
NoDispatch == [type |-> "none"]

\* variant: only a text that is no number is turned away
handleEdgeWeightChange_unguarded(s, value) ==
    LET weight == parseInt(value)
    IN  IF s.selectedEdgeId # Null /\ weight # NaN
        THEN [type |-> "UPDATE_EDGE_WEIGHT", edgeId |-> s.selectedEdgeId,
              weight |-> weight]
        ELSE NoDispatch

handleEdgeWeightChange(s, value) ==
    LET weight == parseInt(value)
    IN  IF s.selectedEdgeId # Null /\ weight > 0
        THEN [type |-> "UPDATE_EDGE_WEIGHT", edgeId |-> s.selectedEdgeId,
              weight |-> weight]
        ELSE NoDispatch

\* the texts typed into the weight field
WeightTexts == {<<>>, <<"0">>, <<"2">>, <<"1", ".", "5">>, <<"x">>}

\* editing weights: edges added with weight 1 or none, weights changed
\* through the weight field only
WeightProfile ==
    [maxIds |-> MaxWeightIds, maxHistory |-> MaxWeightHistory, labels |-> {NoLabel},
     nodeIds |-> 1..(MaxWeightIds - 1), edgeIds |-> {MaxWeightIds, SavedEdgeId},
     stepIds |-> 1..MaxWeightIds,
     points |-> {[x |-> 0, y |-> 0]}, observe |-> FALSE, track |-> FALSE,
     boundViews |-> FALSE, steps |-> {NoStep}, algorithms |-> {NoAlgorithm},
     saved |-> SavedGraphs]

EdgeWeightChange(P) ==
    \E value \in WeightTexts :
        /\ handleEdgeWeightChange(state, value) # NoDispatch
        /\ Dispatch(P, handleEdgeWeightChange(state, value))
        /\ lastAction' = "handleEdgeWeightChange"

NextWeight ==
    \/ AddNode(WeightProfile)
    \/ AddEdge(WeightProfile)
    \/ SelectEdge(WeightProfile)
    \/ EdgeWeightChange(WeightProfile)
    \/ DeleteEdge(WeightProfile)
    \/ Undo(WeightProfile)
    \/ Redo(WeightProfile)
    \/ LoadSavedGraph(WeightProfile)
SpecWeight == Init /\ [][NextWeight]_vars

\* callers that name only what is there: every vertex id and edge id of an
\* action is the id of a vertex or edge of the live graph when the action is
\* dispatched (null where the action takes null)
LiveProfile ==
    [maxIds |-> MaxLiveIds, maxHistory |-> MaxLiveHistory, labels |-> {NoLabel},
     nodeIds |-> 1..MaxLiveIds, edgeIds |-> 1..MaxLiveIds,
     stepIds |-> 1..MaxLiveIds,
     points |-> {[x |-> 0, y |-> 0]}, observe |-> FALSE, track |-> FALSE,
     boundViews |-> FALSE, steps |-> {NoStep}, algorithms |-> {NoAlgorithm},
     saved |-> {[nodes |-> <<Node(SavedBase + 1, 0, 0, <<"1">>, "default")>>,
                 edges |-> <<>>]}]

DeleteLiveNode(P) ==
    \E id \in NodeIds(state.graph) :
        /\ Dispatch(P, [type |-> "DELETE_NODE", nodeId |-> id])
        /\ lastAction' = "DELETE_NODE"

SelectLiveNode(P) ==
    \E id \in {Null} \cup NodeIds(state.graph) :
        /\ Dispatch(P, [type |-> "SELECT_NODE", nodeId |-> id])
        /\ lastAction' = "SELECT_NODE"

AddLiveEdge(P) ==
    \E from \in NodeIds(state.graph), to \in NodeIds(state.graph) :
        /\ from # to
        /\ Dispatch(P, [type |-> "ADD_EDGE", fromNodeId |-> from,
                        toNodeId |-> to, weight |-> 1])
        /\ lastAction' = "ADD_EDGE"

DeleteLiveEdge(P) ==
    \E id \in EdgeIds(state.graph) :
        /\ Dispatch(P, [type |-> "DELETE_EDGE", edgeId |-> id])
        /\ lastAction' = "DELETE_EDGE"

SelectLiveEdge(P) ==
    \E id \in {Null} \cup EdgeIds(state.graph) :
        /\ Dispatch(P, [type |-> "SELECT_EDGE", edgeId |-> id])
        /\ lastAction' = "SELECT_EDGE"

SetLiveStartNode(P) ==
    \E id \in {Null} \cup NodeIds(state.graph) :
        /\ Dispatch(P, [type |-> "SET_START_NODE", nodeId |-> id])
        /\ lastAction' = "SET_START_NODE"

NextLive ==
    \/ AddNode(LiveProfile)
    \/ DeleteLiveNode(LiveProfile)
    \/ SelectLiveNode(LiveProfile)
    \/ AddLiveEdge(LiveProfile)
    \/ DeleteLiveEdge(LiveProfile)
    \/ SelectLiveEdge(LiveProfile)
    \/ SetLiveStartNode(LiveProfile)
    \/ Undo(LiveProfile)
    \/ Redo(LiveProfile)
    \/ LoadSavedGraph(LiveProfile)
SpecLive == Init /\ [][NextLive]_vars

----------------------------------------------------------------------------
(* graphUtils: adjacency list and edge look-up                             *)

NoEdge == [id |-> Null]              \* undefined / null where an edge is expected

\* the entries pushed onto the list of vertex v by the first i edges, in
\* push order: for each edge the entry of its `from` list, then the entry
\* of its `to` list
RECURSIVE adjListUpTo(_, _, _)
adjListUpTo(graph, v, i) ==
    IF i = 0 THEN <<>>
    ELSE LET edge == graph.edges[i]
             fromEntry == IF edge.from = v
                          THEN <<[nodeId |-> edge.to, weight |-> edge.weight]>>
                          ELSE <<>>
             toEntry == IF edge.to = v
                        THEN <<[nodeId |-> edge.from, weight |-> edge.weight]>>
                        ELSE <<>>
         IN  adjListUpTo(graph, v, i - 1) \o fromEntry \o toEntry

\* createAdjacencyList(graph).get(v) || []
createAdjacencyList(graph, v) == adjListUpTo(graph, v, Len(graph.edges))

\* the first edge between the two ids, in either stored direction
findEdge(graph, fromNodeId, toNodeId) ==
    LET hits == {i \in DOMAIN graph.edges :
                    \/ /\ graph.edges[i].from = fromNodeId
                       /\ graph.edges[i].to = toNodeId
                    \/ /\ graph.edges[i].from = toNodeId
                       /\ graph.edges[i].to = fromNodeId}
    IN  IF hits = {} THEN NoEdge
        ELSE graph.edges[CHOOSE i \in hits : \A j \in hits : i <= j]

----------------------------------------------------------------------------
(* The step producers primMST and kruskalMST (generators).                 *)
(* A producer is a record: its arguments, its local variables, the place   *)
(* it is suspended at (pc, named after the step yielded last; "called"     *)
(* before the first next(), "returned" after the last), the step yielded   *)
(* last, the number of addToMST steps yielded so far and the steps yielded *)
(* so far. One resumption (one call of next()) runs the code up to the     *)
(* next yield.                                                             *)

\* the graph of the worked example: vertices a1..a4 labelled A, B, C, D,
\* edges A-B (2), B-C (3), A-C (1), C-D (4) in this order
ExampleGraph ==
    [nodes |-> <<Node(1, 0, 0, <<"A">>, "default"), Node(2, 0, 0, <<"B">>, "default"),
                 Node(3, 0, 0, <<"C">>, "default"), Node(4, 0, 0, <<"D">>, "default")>>,
     edges |-> <<Edge(5, 1, 2, 2, "default"), Edge(6, 2, 3, 3, "default"),
                 Edge(7, 1, 3, 1, "default"), Edge(8, 3, 4, 4, "default")>>]

\* above every weight of the model
Infinity ==
    1 + SetMax({MaxAlgWeight} \cup {e.weight : e \in Range(ExampleGraph.edges)})

GenCall(alg, graph, startNodeId) ==
    [alg |-> alg, pc |-> "called", graph |-> graph, startNodeId |-> startNodeId,
     visited |-> <<>>, minWeight |-> Infinity, minEdge |-> NoEdge, nextNode |-> Null,
     vi |-> 0, ni |-> 0,
     parent |-> <<>>, rank |-> <<>>, sortedEdges |-> <<>>, i |-> 0,
     mstEdges |-> <<>>, totalCost |-> 0,
     queue |-> <<>>, currentNodeId |-> Null, allNeighbors |-> TRUE,
     stack |-> <<>>, path |-> <<>>, edgePath |-> <<>>,
     step |-> NoStep, added |-> 0, steps |-> <<>>]

\* the producer after a resumption, with the step it yielded (if it did
\* not return) appended to the steps yielded so far
Yielded(g, g2) ==
    IF g2.pc = "returned" THEN g2 ELSE [g2 EXCEPT !.steps = Append(g.steps, g2.step)]

\* variant: the element is not added
SetAdd_noop(seq, x) == seq

\* Set.add on a set kept in insertion order
SetAdd(seq, x) == IF x \in Range(seq) THEN seq ELSE Append(seq, x)

\* the two nested for loops of primMST from position (vi, ni) on: the first
\* position whose neighbour is unvisited and has an edge, <<0, 0>> if none
RECURSIVE primScan(_, _, _)
primScan(p, vi, ni) ==
    IF vi > Len(p.visited) THEN <<0, 0>>
    ELSE LET neighbors == createAdjacencyList(p.graph, p.visited[vi])
         IN  IF ni > Len(neighbors) THEN primScan(p, vi + 1, 1)
             ELSE IF /\ neighbors[ni].nodeId \notin Range(p.visited)
                     /\ findEdge(p.graph, p.visited[vi], neighbors[ni].nodeId) # NoEdge
                  THEN <<vi, ni>>
                  ELSE primScan(p, vi, ni + 1)

\* variant: the step after a scan that found no edge carries cost 0
primFor_zeroCost(p, vi, ni) ==
    LET pos == primScan(p, vi, ni)
    IN  IF pos # <<0, 0>>
        THEN LET visitedNodeId == p.visited[pos[1]]
                 neighbor == createAdjacencyList(p.graph, visitedNodeId)[pos[2]]
                 edge == findEdge(p.graph, visitedNodeId, neighbor.nodeId)
             IN  [p EXCEPT !.pc = "visitEdge", !.vi = pos[1], !.ni = pos[2],
                           !.step = Step("visitEdge", Null, edge.id, NoCost, "")]
        ELSE IF p.minEdge = NoEdge \/ p.nextNode = Null
        THEN [p EXCEPT !.pc = "done",
                       !.step = Done("disconnected", NoCount, 0, "")]
        ELSE [p EXCEPT !.mstEdges = Append(p.mstEdges, p.minEdge),
                       !.totalCost = p.totalCost + p.minEdge.weight,
                       !.visited = SetAdd(p.visited, p.nextNode),
                       !.pc = "addToMST",
                       !.step = Step("addToMST", p.nextNode, p.minEdge.id, NoCost,
                                     "added"),
                       !.added = p.added + 1]

\* primMST resumed inside the for loops at position (vi, ni)
primFor(p, vi, ni) ==
    LET pos == primScan(p, vi, ni)
    IN  IF pos # <<0, 0>>
        THEN LET visitedNodeId == p.visited[pos[1]]
                 neighbor == createAdjacencyList(p.graph, visitedNodeId)[pos[2]]
                 edge == findEdge(p.graph, visitedNodeId, neighbor.nodeId)
             IN  [p EXCEPT !.pc = "visitEdge", !.vi = pos[1], !.ni = pos[2],
                           !.step = Step("visitEdge", Null, edge.id, NoCost, "")]
        ELSE IF p.minEdge = NoEdge \/ p.nextNode = Null
        THEN [p EXCEPT !.pc = "done",
                       !.step = Done("disconnected", NoCount, p.totalCost, "")]
        ELSE [p EXCEPT !.mstEdges = Append(p.mstEdges, p.minEdge),
                       !.totalCost = p.totalCost + p.minEdge.weight,
                       !.visited = SetAdd(p.visited, p.nextNode),
                       !.pc = "addToMST",
                       !.step = Step("addToMST", p.nextNode, p.minEdge.id, NoCost,
                                     "added"),
                       !.added = p.added + 1]

\* primMST resumed at the head of its while loop
primWhile(p) ==
    IF Len(p.visited) < Len(p.graph.nodes)
    THEN primFor([p EXCEPT !.minWeight = Infinity, !.minEdge = NoEdge,
                           !.nextNode = Null], 1, 1)
    ELSE [p EXCEPT !.pc = "done",
                   !.step = Done("completed", Len(p.mstEdges), p.totalCost,
                                "complete")]

\* one resumption of primMST(graph, startNodeId)
primMST(p) ==
    CASE p.pc = "called" ->
            IF p.startNodeId = Null \/ p.startNodeId \notin NodeIds(p.graph)
            THEN [p EXCEPT !.pc = "done",
                           !.step = Done("noStart", NoCount, NoCost, "")]
            ELSE [p EXCEPT !.pc = "visitNode", !.visited = <<p.startNodeId>>,
                           !.step = Step("visitNode", p.startNodeId, Null, NoCost,
                                         "start")]
      [] p.pc = "visitNode" -> primWhile(p)
      [] p.pc = "visitEdge" ->
            LET visitedNodeId == p.visited[p.vi]
                neighbor == createAdjacencyList(p.graph, visitedNodeId)[p.ni]
                edge == findEdge(p.graph, visitedNodeId, neighbor.nodeId)
            IN  IF neighbor.weight < p.minWeight
                THEN [p EXCEPT !.minWeight = neighbor.weight, !.minEdge = edge,
                               !.nextNode = neighbor.nodeId,
                               !.pc = "processNode",
                               !.step = Step("processNode", neighbor.nodeId, Null,
                                             NoCost, "")]
                ELSE [p EXCEPT !.pc = "skipEdge",
                               !.step = Step("skipEdge", Null, edge.id, NoCost, "")]
      [] p.pc \in {"processNode", "skipEdge"} -> primFor(p, p.vi, p.ni + 1)
      [] p.pc = "addToMST" -> primWhile(p)
      [] p.pc = "done" -> [p EXCEPT !.pc = "returned"]
      [] OTHER -> p

\* find(nodeId) of kruskalMST: the root of nodeId, undefined (Null) for an
\* id that is no vertex
RECURSIVE find(_, _)
find(parent, nodeId) ==
    IF nodeId \notin DOMAIN parent THEN Null
    ELSE IF parent[nodeId] # nodeId THEN find(parent, parent[nodeId])
    ELSE nodeId

\* the path compression of find(nodeId): every vertex on the way to the
\* root is made a child of the root
RECURSIVE compress(_, _)
compress(parent, nodeId) ==
    IF nodeId \notin DOMAIN parent \/ parent[nodeId] = nodeId THEN parent
    ELSE [compress(parent, parent[nodeId]) EXCEPT ![nodeId] = find(parent, nodeId)]

\* variant: the two sets are left apart
union_noop(parent, rank, x, y) == [parent |-> parent, rank |-> rank]

\* union(x, y) of kruskalMST on two roots: the new parent and rank
union(parent, rank, x, y) ==
    LET p1 == compress(parent, x)
        rootX == find(parent, x)
        p2 == compress(p1, y)
        rootY == find(p1, y)
    IN  IF rootX = rootY THEN [parent |-> p2, rank |-> rank]
        ELSE IF rank[rootX] < rank[rootY]
        THEN [parent |-> [p2 EXCEPT ![rootX] = rootY], rank |-> rank]
        ELSE IF rank[rootX] > rank[rootY]
        THEN [parent |-> [p2 EXCEPT ![rootY] = rootX], rank |-> rank]
        ELSE [parent |-> [p2 EXCEPT ![rootY] = rootX],
              rank |-> [rank EXCEPT ![rootX] = rank[rootX] + 1]]

\* variant: the edges are taken in the order of the graph
sortByWeight_unsorted(edges) == edges

\* [...edges].sort((a, b) => a.weight - b.weight): ascending, stable
RECURSIVE sortByWeight(_)
sortByWeight(edges) ==
    IF Len(edges) <= 1 THEN edges
    ELSE LET front == sortByWeight(SubSeq(edges, 1, Len(edges) - 1))
             last == edges[Len(edges)]
             before == SelectSeq(front, LAMBDA e : e.weight <= last.weight)
             after == SelectSeq(front, LAMBDA e : e.weight > last.weight)
         IN  before \o <<last>> \o after

\* kruskalMST after its for loop
kruskalEnd(k) ==
    IF Len(k.mstEdges) < Len(k.graph.nodes) - 1
    THEN [k EXCEPT !.pc = "done",
                   !.step = Done("disconnected", NoCount, k.totalCost,
                                "disconnected")]
    ELSE [k EXCEPT !.pc = "done",
                   !.step = Done("completed", Len(k.mstEdges), k.totalCost,
                                "complete")]

\* kruskalMST resumed at the head of its for loop, i the next index
kruskalFor(k, i) ==
    IF i <= Len(k.sortedEdges)
    THEN [k EXCEPT !.i = i, !.pc = "visitEdge",
                   !.step = Step("visitEdge", Null, k.sortedEdges[i].id, NoCost, "")]
    ELSE kruskalEnd(k)

\* variant: every edge is accepted and the loop is never left early
kruskalMST_acceptsAll(k) ==
    CASE k.pc = "called" ->
            [k EXCEPT !.parent = [id \in NodeIds(k.graph) |-> id],
                      !.rank = [id \in NodeIds(k.graph) |-> 0],
                      !.sortedEdges = sortByWeight(k.graph.edges),
                      !.pc = "announce",
                      !.step = Done("starting", Len(k.graph.edges), NoCost, "start")]
      [] k.pc \in {"announce", "skipEdge", "addToMST"} -> kruskalFor(k, k.i + 1)
      [] k.pc = "visitEdge" ->
            LET edge == k.sortedEdges[k.i]
            IN  [k EXCEPT !.mstEdges = Append(k.mstEdges, edge),
                          !.totalCost = k.totalCost + edge.weight,
                          !.pc = "addToMST",
                          !.step = Step("addToMST", edge.to, edge.id, NoCost, "added"),
                          !.added = k.added + 1]
      [] k.pc = "done" -> [k EXCEPT !.pc = "returned"]
      [] OTHER -> k

\* one resumption of kruskalMST(graph)
kruskalMST(k) ==
    CASE k.pc = "called" ->
            [k EXCEPT !.parent = [id \in NodeIds(k.graph) |-> id],
                      !.rank = [id \in NodeIds(k.graph) |-> 0],
                      !.sortedEdges = sortByWeight(k.graph.edges),
                      !.pc = "announce",
                      !.step = Done("starting", Len(k.graph.edges), NoCost, "start")]
      [] k.pc \in {"announce", "skipEdge"} -> kruskalFor(k, k.i + 1)
      [] k.pc = "visitEdge" ->
            LET edge == k.sortedEdges[k.i]
                fromRoot == find(k.parent, edge.from)
                parent1 == compress(k.parent, edge.from)
                toRoot == find(parent1, edge.to)
                parent2 == compress(parent1, edge.to)
            IN  IF fromRoot # toRoot
                THEN LET u == union(parent2, k.rank, fromRoot, toRoot)
                     IN  [k EXCEPT !.mstEdges = Append(k.mstEdges, edge),
                                   !.totalCost = k.totalCost + edge.weight,
                                   !.parent = u.parent,
                                   !.rank = u.rank,
                                   !.pc = "addToMST",
                                   !.step = Step("addToMST", edge.to, edge.id, NoCost,
                                                 "added"),
                                   !.added = k.added + 1]
                ELSE [k EXCEPT !.parent = parent2,
                               !.pc = "skipEdge",
                               !.step = Step("skipEdge", Null, edge.id, NoCost, "")]
      [] k.pc = "addToMST" ->
            IF Len(k.mstEdges) = Len(k.graph.nodes) - 1
            THEN kruskalEnd(k)
            ELSE kruskalFor(k, k.i + 1)
      [] k.pc = "done" -> [k EXCEPT !.pc = "returned"]
      [] OTHER -> k

----------------------------------------------------------------------------
(* The step producers bfs and dfs (generators).                            *)
(* The parent map of bfs is read only to build the text of the last step   *)
(* and is not modelled; that text is the pathStep "path".                  *)

\* variant: bfs returns after its while loop without a last step
bfsEnd_silent(b) == [b EXCEPT !.pc = "returned"]

\* bfs after its while loop
bfsEnd(b) ==
    [b EXCEPT !.pc = "done",
              !.step = Done("completed", Len(b.visited), NoCost, "path")]

\* variant: the vertex discovered last is taken first
bfsWhile_lifo(b) ==
    IF Len(b.queue) > 0
    THEN LET currentNodeId == b.queue[Len(b.queue)]
         IN  [b EXCEPT !.queue = SubSeq(b.queue, 1, Len(b.queue) - 1),
                       !.currentNodeId = currentNodeId,
                       !.pc = "processNode",
                       !.step = Step("processNode", currentNodeId, Null, NoCost,
                                     "visiting")]
    ELSE bfsEnd(b)

\* bfs resumed at the head of its while loop
bfsWhile(b) ==
    IF Len(b.queue) > 0
    THEN LET currentNodeId == Head(b.queue)
         IN  [b EXCEPT !.queue = Tail(b.queue),
                       !.currentNodeId = currentNodeId,
                       !.pc = "processNode",
                       !.step = Step("processNode", currentNodeId, Null, NoCost,
                                     "visiting")]
    ELSE bfsEnd(b)

\* bfs resumed inside its for loop: bfsFor at the head of the iteration for
\* neighbour ni, bfsNeighbor after the visitEdge step of that iteration
RECURSIVE bfsFor(_, _)
RECURSIVE bfsNeighbor(_, _)
bfsFor(b, ni) ==
    LET neighbors == createAdjacencyList(b.graph, b.currentNodeId)
    IN  IF ni > Len(neighbors)
        THEN IF b.allNeighbors
             THEN [b EXCEPT !.pc = "completeNode",
                            !.step = Step("completeNode", b.currentNodeId, Null,
                                          NoCost, "completed")]
             ELSE bfsWhile(b)
        ELSE LET edge == findEdge(b.graph, b.currentNodeId, neighbors[ni].nodeId)
             IN  IF edge # NoEdge
                 THEN [b EXCEPT !.ni = ni, !.pc = "visitEdge",
                                !.step = Step("visitEdge", Null, edge.id, NoCost,
                                              "examining")]
                 ELSE bfsNeighbor(b, ni)

bfsNeighbor(b, ni) ==
    LET neighbors == createAdjacencyList(b.graph, b.currentNodeId)
        neighborId == neighbors[ni].nodeId
        edge == findEdge(b.graph, b.currentNodeId, neighborId)
    IN  IF neighborId \notin Range(b.visited)
        THEN LET b2 == [b EXCEPT !.allNeighbors = FALSE,
                                 !.visited = SetAdd(b.visited, neighborId),
                                 !.queue = Append(b.queue, neighborId)]
             IN  IF edge # NoEdge
                 THEN [b2 EXCEPT !.ni = ni, !.pc = "traverseEdge",
                                 !.step = Step("traverseEdge", neighborId, edge.id,
                                               NoCost, "found")]
                 ELSE bfsFor(b2, ni + 1)
        ELSE IF edge # NoEdge
        THEN [b EXCEPT !.ni = ni, !.pc = "skipEdge",
                       !.step = Step("skipEdge", Null, edge.id, NoCost, "skipping")]
        ELSE bfsFor(b, ni + 1)

\* one resumption of bfs(graph, startNodeId)
bfs(b) ==
    CASE b.pc = "called" ->
            IF b.startNodeId = Null \/ b.startNodeId \notin NodeIds(b.graph)
            THEN [b EXCEPT !.pc = "done",
                           !.step = Done("noStart", NoCount, NoCost, "")]
            ELSE [b EXCEPT !.pc = "visitNode",
                           !.queue = <<b.startNodeId>>,
                           !.visited = SetAdd(<<>>, b.startNodeId),
                           !.step = Step("visitNode", b.startNodeId, Null, NoCost,
                                         "start")]
      [] b.pc \in {"visitNode", "completeNode"} -> bfsWhile(b)
      [] b.pc = "processNode" -> bfsFor([b EXCEPT !.allNeighbors = TRUE], 1)
      [] b.pc = "visitEdge" -> bfsNeighbor(b, b.ni)
      [] b.pc \in {"traverseEdge", "skipEdge"} -> bfsFor(b, b.ni + 1)
      [] b.pc = "done" -> [b EXCEPT !.pc = "returned"]
      [] OTHER -> b

\* the call stack of dfsVisit: one frame per active call, the innermost last
Frame(nodeId, ni, allNeighborsExplored) ==
    [nodeId |-> nodeId, ni |-> ni, allNeighborsExplored |-> allNeighborsExplored]

\* variant: the frame of the outermost call
Top_outermost(d) == d.stack[1]

Top(d) == d.stack[Len(d.stack)]

SetTop(d, frame) == [d EXCEPT !.stack[Len(d.stack)] = frame]

\* variant: the entered vertex is not put into the visited set
dfsVisit_unmarked(d, nodeId) ==
    [d EXCEPT !.path = Append(d.path, nodeId),
              !.stack = Append(d.stack, Frame(nodeId, 0, TRUE)),
              !.pc = "visitNode",
              !.step = Step("visitNode", nodeId, Null, NoCost, "visiting")]

\* dfsVisit(nodeId) called: up to its first yield
dfsVisit(d, nodeId) ==
    [d EXCEPT !.visited = SetAdd(d.visited, nodeId),
              !.path = Append(d.path, nodeId),
              !.stack = Append(d.stack, Frame(nodeId, 0, TRUE)),
              !.pc = "visitNode",
              !.step = Step("visitNode", nodeId, Null, NoCost, "visiting")]

\* dfs after dfsVisit(startNodeId) has returned
dfsEnd(d) ==
    [d EXCEPT !.pc = "done",
              !.step = Done("completed", Len(d.visited), NoCost, "path")]

\* the innermost dfsVisit resumed inside its for loop: dfsFor at the head
\* of the iteration for neighbour ni, dfsNeighbor after the currentEdge
\* step of that iteration
RECURSIVE dfsFor(_, _)
RECURSIVE dfsNeighbor(_, _)
dfsFor(d, ni) ==
    LET nodeId == Top(d).nodeId
        neighbors == createAdjacencyList(d.graph, nodeId)
    IN  IF ni > Len(neighbors)
        THEN [d EXCEPT !.pc = "completeNode",
                       !.step = Step("completeNode", nodeId, Null, NoCost,
                                     "completed")]
        ELSE LET edge == findEdge(d.graph, nodeId, neighbors[ni].nodeId)
             IN  IF edge # NoEdge
                 THEN [SetTop(d, [Top(d) EXCEPT !.ni = ni]) EXCEPT
                            !.pc = "currentEdge",
                            !.step = Step("currentEdge", Null, edge.id, NoCost,
                                          "examining")]
                 ELSE dfsNeighbor(SetTop(d, [Top(d) EXCEPT !.ni = ni]), ni)

dfsNeighbor(d, ni) ==
    LET nodeId == Top(d).nodeId
        neighbors == createAdjacencyList(d.graph, nodeId)
        neighborId == neighbors[ni].nodeId
        edge == findEdge(d.graph, nodeId, neighborId)
    IN  IF neighborId \notin Range(d.visited)
        THEN LET d2 == SetTop(d, [Top(d) EXCEPT !.allNeighborsExplored = FALSE])
             IN  IF edge # NoEdge
                 THEN [d2 EXCEPT !.edgePath = Append(d.edgePath, edge.id),
                                 !.pc = "traverseEdge",
                                 !.step = Step("traverseEdge", neighborId, edge.id,
                                               NoCost, "moving")]
                 ELSE dfsVisit(d2, neighborId)
        ELSE IF edge # NoEdge
        THEN [d EXCEPT !.pc = "skipEdge",
                       !.step = Step("skipEdge", Null, edge.id, NoCost, "skipping")]
        ELSE dfsFor(d, ni + 1)

\* variant: only an unset start is turned away
dfs_unsetOnly(d) ==
    CASE d.pc = "called" ->
            IF d.startNodeId = Null
            THEN [d EXCEPT !.pc = "done",
                           !.step = Done("noStart", NoCount, NoCost, "")]
            ELSE [d EXCEPT !.pc = "start",
                           !.step = Step("visitNode", d.startNodeId, Null, NoCost,
                                         "start")]
      [] d.pc = "start" -> dfsVisit(d, d.startNodeId)
      [] d.pc = "visitNode" -> dfsFor(d, 1)
      [] d.pc = "currentEdge" -> dfsNeighbor(d, Top(d).ni)
      [] d.pc = "traverseEdge" ->
            dfsVisit(d, createAdjacencyList(d.graph, Top(d).nodeId)[Top(d).ni].nodeId)
      [] d.pc = "skipEdge" -> dfsFor(d, Top(d).ni + 1)
      [] d.pc = "completeNode" ->
            LET returned == [d EXCEPT !.stack = SubSeq(d.stack, 1, Len(d.stack) - 1)]
            IN  IF returned.stack = <<>> THEN dfsEnd(returned)
                ELSE dfsFor(returned, Top(returned).ni + 1)
      [] d.pc = "done" -> [d EXCEPT !.pc = "returned"]
      [] OTHER -> d

\* one resumption of dfs(graph, startNodeId)
dfs(d) ==
    CASE d.pc = "called" ->
            IF d.startNodeId = Null \/ d.startNodeId \notin NodeIds(d.graph)
            THEN [d EXCEPT !.pc = "done",
                           !.step = Done("noStart", NoCount, NoCost, "")]
            ELSE [d EXCEPT !.pc = "start",
                           !.step = Step("visitNode", d.startNodeId, Null, NoCost,
                                         "start")]
      [] d.pc = "start" -> dfsVisit(d, d.startNodeId)
      [] d.pc = "visitNode" -> dfsFor(d, 1)
      [] d.pc = "currentEdge" -> dfsNeighbor(d, Top(d).ni)
      [] d.pc = "traverseEdge" ->
            dfsVisit(d, createAdjacencyList(d.graph, Top(d).nodeId)[Top(d).ni].nodeId)
      [] d.pc = "skipEdge" -> dfsFor(d, Top(d).ni + 1)
      [] d.pc = "completeNode" ->
            LET returned == [d EXCEPT !.stack = SubSeq(d.stack, 1, Len(d.stack) - 1)]
            IN  IF returned.stack = <<>> THEN dfsEnd(returned)
                ELSE dfsFor(returned, Top(returned).ni + 1)
      [] d.pc = "done" -> [d EXCEPT !.pc = "returned"]
      [] OTHER -> d

----------------------------------------------------------------------------
(* Runs of the step producers on the graphs of the model                   *)

\* the graphs handed to the producers: n vertices 1..n, edges between two
\* distinct vertices, at most one per unordered pair, in any order and
\* stored direction, with any weights
AlgEdgeShapes(n) ==
    {<<from, to, w>> : from \in 1..n, to \in 1..n, w \in 1..MaxAlgWeight}

AlgEdgeLists(n) ==
    {es \in UNION {[1..m -> AlgEdgeShapes(n)] : m \in 0..MaxAlgEdges} :
        /\ \A i \in DOMAIN es : es[i][1] # es[i][2]
        /\ \A i \in DOMAIN es, j \in DOMAIN es :
              i # j => {es[i][1], es[i][2]} # {es[j][1], es[j][2]}}

AlgGraph(n, es) ==
    [nodes |-> [i \in 1..n |-> Node(i, 0, 0, toString(i), "default")],
     edges |-> [i \in DOMAIN es |->
                  Edge(MaxAlgNodes + i, es[i][1], es[i][2], es[i][3], "default")]]

AlgGraphs ==
    UNION {{AlgGraph(n, es) : es \in AlgEdgeLists(n)} : n \in 0..MaxAlgNodes}

AlgCalls ==
    {GenCall("prim", g, start) : g \in AlgGraphs, start \in 0..MaxAlgNodes}
    \cup {GenCall("kruskal", g, Null) : g \in AlgGraphs}

\* bfs and dfs read no weight: they are run on the graphs of unit weight
UnitGraphs == {g \in AlgGraphs : \A e \in Range(g.edges) : e.weight = 1}

\* the two runs of the worked example
ExampleCalls ==
    {GenCall("prim", ExampleGraph, 1), GenCall("kruskal", ExampleGraph, Null)}

SearchCalls ==
    {GenCall(alg, g, start) :
        alg \in {"bfs", "dfs"}, g \in UnitGraphs, start \in 0..MaxAlgNodes}

InitAlg ==
    /\ state = initialState
    /\ nextId = 1
    /\ lastAction = NoAction
    /\ run = FreshRun(EmptyGraph)
    /\ seen = NothingSeen
    /\ viewCount = 0
    /\ gen \in AlgCalls \cup SearchCalls \cup ExampleCalls
    /\ driver = DriverIdle

PrimNext ==
    /\ gen.alg = "prim"
    /\ gen.pc # "returned"
    /\ gen' = Yielded(gen, primMST(gen))
    /\ UNCHANGED <<state, nextId, lastAction, run, seen, viewCount, driver>>

KruskalNext ==
    /\ gen.alg = "kruskal"
    /\ gen.pc # "returned"
    /\ gen' = Yielded(gen, kruskalMST(gen))
    /\ UNCHANGED <<state, nextId, lastAction, run, seen, viewCount, driver>>

BfsNext ==
    /\ gen.alg = "bfs"
    /\ gen.pc # "returned"
    /\ gen' = Yielded(gen, bfs(gen))
    /\ UNCHANGED <<state, nextId, lastAction, run, seen, viewCount, driver>>

DfsNext ==
    /\ gen.alg = "dfs"
    /\ gen.pc # "returned"
    /\ gen' = Yielded(gen, dfs(gen))
    /\ UNCHANGED <<state, nextId, lastAction, run, seen, viewCount, driver>>

NextAlg == PrimNext \/ KruskalNext \/ BfsNext \/ DfsNext
SpecAlg == InitAlg /\ [][NextAlg]_vars

\* the calls of the consumer below: kruskalMST on every graph, bfs and dfs
\* on the graphs of unit weight from every start, primMST on the graphs of
\* unit weight from the first vertex and without a start, and the two runs
\* of the worked example
PullCalls ==
    {c \in AlgCalls : c.alg = "kruskal"}
    \cup SearchCalls
    \cup {GenCall("prim", g, start) : g \in UnitGraphs, start \in 0..1}
    \cup ExampleCalls

\* a consumer that has called one producer and keeps calling next() on it
\* until it has returned
InitPull ==
    /\ state = initialState
    /\ nextId = 1
    /\ lastAction = NoAction
    /\ run = FreshRun(EmptyGraph)
    /\ seen = NothingSeen
    /\ viewCount = 0
    /\ gen \in PullCalls
    /\ driver = DriverIdle

SpecPull == InitPull /\ [][NextAlg]_vars /\ WF_vars(NextAlg)

----------------------------------------------------------------------------
(* The Sidebar: the handlers of its buttons and its interval effect.       *)
(* A component is the reducer state with the two useState values of the    *)
(* Sidebar; each handler runs to its end, the effects that its dispatches  *)
(* trigger included (the interval exists exactly while isRunning holds and *)
(* a producer is there).                                                   *)

Component(s, generator, isFinished) ==
    [state |-> s, generator |-> generator, isFinished |-> isFinished]

\* dispatch(action), for the actions that call no generateId
dispatch(c, a) == [c EXCEPT !.state = graphReducer(c.state, a, Null)]

\* the effect that clears the path when state.algorithm has changed
clearPathEffect(c, before) ==
    IF c.state.algorithm # before.state.algorithm /\ ~c.state.isRunning
    THEN dispatch(c, [type |-> "CLEAR_PATH"])
    ELSE c

handleAlgorithmSelect(c, algorithm) ==
    LET c1 == dispatch(c, [type |-> "RESET_GRAPH_STATUS"])
        c2 == dispatch(c1, [type |-> "SET_ALGORITHM", algorithm |-> algorithm])
        c3 == dispatch(c2, [type |-> "SET_RUNNING", isRunning |-> FALSE])
    IN  clearPathEffect([c3 EXCEPT !.isFinished = FALSE], c)

handleStartAlgorithm(c) ==
    IF c.state.algorithm = NoAlgorithm THEN c
    ELSE IF c.state.algorithm \in {"prim", "bfs", "dfs"} /\ c.state.startNodeId = Null
    THEN c
    ELSE LET c1 == dispatch(c, [type |-> "RESET_GRAPH_STATUS"])
             algorithmGenerator ==
                 GenCall(c.state.algorithm, c.state.graph,
                         IF c.state.algorithm = "kruskal" THEN Null
                         ELSE c.state.startNodeId)
             c2 == dispatch([c1 EXCEPT !.generator = algorithmGenerator],
                            [type |-> "SET_RUNNING", isRunning |-> TRUE])
         IN  [c2 EXCEPT !.isFinished = FALSE]

\* variant: resuming creates the producer anew
handleTogglePause_restarts(c) ==
    LET c1 == dispatch(c, [type |-> "SET_RUNNING", isRunning |-> ~c.state.isRunning])
    IN  IF c1.state.isRunning /\ c.generator # GenIdle
        THEN [c1 EXCEPT !.generator =
                GenCall(c.generator.alg, c.generator.graph, c.generator.startNodeId)]
        ELSE c1

handleTogglePause(c) ==
    dispatch(c, [type |-> "SET_RUNNING", isRunning |-> ~c.state.isRunning])

handleResetAlgorithm(c) ==
    LET c1 == dispatch(c, [type |-> "SET_RUNNING", isRunning |-> FALSE])
        c2 == dispatch(c1, [type |-> "RESET_GRAPH_STATUS"])
    IN  [c2 EXCEPT !.generator = GenIdle, !.isFinished = FALSE]

handleSpeedChange(c, speed) == dispatch(c, [type |-> "SET_SPEED", speed |-> speed])

\* generator.next(): the producer after the call; result.done holds when it
\* has returned, and result.value is then undefined
generatorNext(g) ==
    Yielded(g, CASE g.alg = "prim" -> primMST(g)
                 [] g.alg = "kruskal" -> kruskalMST(g)
                 [] g.alg = "bfs" -> bfs(g)
                 [] g.alg = "dfs" -> dfs(g)
                 [] OTHER -> g)

\* the callback of setInterval
tick(c) ==
    LET generator == generatorNext(c.generator)
        c1 == [c EXCEPT !.generator = generator]
    IN  IF generator.pc = "returned"
        THEN dispatch([c1 EXCEPT !.isFinished = TRUE],
                      [type |-> "SET_RUNNING", isRunning |-> FALSE])
        ELSE LET c2 == dispatch(c1, [type |-> "SET_CURRENT_STEP",
                                     step |-> generator.step])
             IN  IF generator.step.pathStep # ""
                 THEN dispatch(c2, [type |-> "ADD_PATH_STEP",
                                    step |-> generator.step.pathStep])
                 ELSE c2

\* the interval of the effect exists
intervalSet(c) == c.state.isRunning /\ c.generator # GenIdle

----------------------------------------------------------------------------
(* Runs of the Sidebar on loaded graphs                                    *)

\* the graphs on the board when the Sidebar is used: up to MaxDriverNodes
\* vertices, every edge of the largest weight and stored from its lower end
DriverGraphs ==
    {g \in AlgGraphs :
        /\ Len(g.nodes) <= MaxDriverNodes
        /\ \A e \in Range(g.edges) : e.weight = MaxAlgWeight /\ e.from < e.to}

\* the states the Sidebar starts from: a graph was loaded and a start vertex
\* was chosen or not
DriverStates ==
    {graphReducer(graphReducer(initialState,
                               [type |-> "LOAD_SAVED_GRAPH", graph |-> g], Null),
                  [type |-> "SET_START_NODE", nodeId |-> n], Null) :
        g \in DriverGraphs, n \in 0..MaxDriverNodes}

InitDriver ==
    /\ state \in DriverStates
    /\ nextId = 1
    /\ lastAction = NoAction
    /\ run = FreshRun(EmptyGraph)
    /\ seen = NothingSeen
    /\ viewCount = 0
    /\ gen = GenIdle
    /\ driver = DriverIdle

Here == Component(state, gen, driver.isFinished)

\* the component after a handler or a tick, with the observers
Becomes(c, applied, retired) ==
    /\ state' = c.state
    /\ gen' = c.generator
    /\ driver' = [isFinished |-> c.isFinished, applied |-> applied,
                  retired |-> retired]
    /\ UNCHANGED <<nextId, run, seen, viewCount>>

AlgorithmSelect ==
    \E algorithm \in Algorithms \ {NoAlgorithm} :
        /\ Becomes(handleAlgorithmSelect(Here, algorithm), driver.applied,
                   driver.retired \/ gen # GenIdle)
        /\ lastAction' = "handleAlgorithmSelect"

\* the Start button is disabled while running and without an algorithm
StartAlgorithm ==
    /\ ~state.isRunning /\ state.algorithm # NoAlgorithm
    /\ LET c == handleStartAlgorithm(Here)
           created == c.generator # gen \/ c.state.isRunning
       IN  Becomes(c, IF created THEN <<>> ELSE driver.applied,
                   IF created THEN FALSE ELSE driver.retired)
    /\ lastAction' = "handleStartAlgorithm"

\* the Pause/Resume button is disabled without an algorithm and when the
\* run has finished
TogglePause ==
    /\ state.algorithm # NoAlgorithm /\ ~driver.isFinished
    /\ Becomes(handleTogglePause(Here), driver.applied, driver.retired)
    /\ lastAction' = "handleTogglePause"

\* the Reset button is disabled without an algorithm
ResetAlgorithm ==
    /\ state.algorithm # NoAlgorithm
    /\ Becomes(handleResetAlgorithm(Here), <<>>, driver.retired \/ gen # GenIdle)
    /\ lastAction' = "handleResetAlgorithm"

SpeedChange ==
    \E speed \in Speeds :
        /\ Becomes(handleSpeedChange(Here, speed), driver.applied, driver.retired)
        /\ lastAction' = "handleSpeedChange"

Tick ==
    /\ intervalSet(Here)
    /\ LET c == tick(Here)
       IN  Becomes(c, IF c.generator.pc = "returned" THEN driver.applied
                      ELSE Append(driver.applied, c.state.currentStep),
                   driver.retired)
    /\ lastAction' = "tick"

NextDriver ==
    \/ AlgorithmSelect
    \/ StartAlgorithm
    \/ TogglePause
    \/ ResetAlgorithm
    \/ SpeedChange
    \/ Tick
SpecDriver == InitDriver /\ [][NextDriver]_vars

\* whole runs: Start, then the ticks of the interval until the producer has
\* returned, and Start again.  The graphs are those handed to the producers
\* with every edge stored from its lower end; an algorithm is selected and a
\* start vertex of the graph is chosen or not.
ApplyGraphs == {g \in AlgGraphs : \A e \in Range(g.edges) : e.from < e.to}

ApplyStates ==
    UNION {{graphReducer(
                graphReducer(
                    graphReducer(initialState,
                                 [type |-> "LOAD_SAVED_GRAPH", graph |-> g], Null),
                    [type |-> "SET_START_NODE", nodeId |-> n], Null),
                [type |-> "SET_ALGORITHM", algorithm |-> algorithm], Null) :
              n \in {Null} \cup NodeIds(g), algorithm \in Algorithms \ {NoAlgorithm}} :
           g \in ApplyGraphs}

InitApply ==
    /\ state \in ApplyStates
    /\ nextId = 1
    /\ lastAction = NoAction
    /\ run = FreshRun(EmptyGraph)
    /\ seen = NothingSeen
    /\ viewCount = 0
    /\ gen = GenIdle
    /\ driver = DriverIdle

NextApply == StartAlgorithm \/ Tick
SpecApply == InitApply /\ [][NextApply]_vars

----------------------------------------------------------------------------
(* The controls of the board beside a run of the Sidebar                   *)

\* handleUndo, handleRedo, handleDeleteNode and the keydown listener of the
\* board: the actions each dispatches, in order
handleUndo(s) ==
    IF s.historyIndex > 0 THEN <<[type |-> "UNDO"]>> ELSE <<>>

handleRedo(s) ==
    IF s.historyIndex < Len(s.history) - 1 THEN <<[type |-> "REDO"]>> ELSE <<>>

handleDeleteNode(s) ==
    IF s.selectedNodeId # Null
    THEN <<[type |-> "DELETE_NODE", nodeId |-> s.selectedNodeId]>>
    ELSE IF s.selectedEdgeId # Null
    THEN <<[type |-> "DELETE_EDGE", edgeId |-> s.selectedEdgeId]>>
    ELSE <<>>

Keys == {"Delete", "Escape", "Ctrl+z", "Ctrl+Shift+z", "Ctrl+y"}

handleKeyDown(s, key) ==
    IF s.isRunning THEN <<>>
    ELSE CASE key = "Delete" ->
                IF s.selectedNodeId # Null
                THEN <<[type |-> "DELETE_NODE", nodeId |-> s.selectedNodeId]>>
                ELSE IF s.selectedEdgeId # Null
                THEN <<[type |-> "DELETE_EDGE", edgeId |-> s.selectedEdgeId]>>
                ELSE <<>>
           [] key = "Escape" ->
                <<[type |-> "SELECT_NODE", nodeId |-> Null],
                  [type |-> "SELECT_EDGE", edgeId |-> Null]>>
           [] key = "Ctrl+z" -> handleUndo(s)
           [] key \in {"Ctrl+Shift+z", "Ctrl+y"} -> handleRedo(s)
           [] OTHER -> <<>>

\* the state after the dispatches of one handler
RECURSIVE dispatchEach(_, _)
dispatchEach(s, actions) ==
    IF actions = <<>> THEN s
    ELSE dispatchEach(graphReducer(s, Head(actions), Null), Tail(actions))

\* the states the board and the Sidebar start from: a graph was loaded, an
\* algorithm was selected, and a vertex or an edge was clicked or not
BoardStates ==
    UNION {{graphReducer(graphReducer(s, [type |-> "SET_ALGORITHM",
                                          algorithm |-> algorithm], Null),
                         select, Null) :
                algorithm \in Algorithms \ {NoAlgorithm},
                select \in {[type |-> "SELECT_NODE", nodeId |-> n] :
                                n \in {Null} \cup NodeIds(s.graph)}
                           \cup {[type |-> "SELECT_EDGE", edgeId |-> e] :
                                e \in EdgeIds(s.graph)}} :
           s \in DriverStates}

InitBoard ==
    /\ state \in BoardStates
    /\ nextId = 1
    /\ lastAction = NoAction
    /\ run = FreshRun(EmptyGraph)
    /\ seen = NothingSeen
    /\ viewCount = 0
    /\ gen = GenIdle
    /\ driver = DriverIdle

\* a handler of the board has dispatched `actions`
BoardDispatch(actions) ==
    /\ actions # <<>>
    /\ (\E i \in 1..Len(actions) : recordsHistory(state, actions[i]))
            => state.historyIndex < MaxBoardHistory - 1
    /\ state' = dispatchEach(state, actions)
    /\ UNCHANGED <<nextId, run, seen, viewCount, gen, driver>>

\* the Delete button is disabled when nothing is selected
DeleteButton ==
    /\ state.selectedNodeId # Null \/ state.selectedEdgeId # Null
    /\ BoardDispatch(handleDeleteNode(state))
    /\ lastAction' = "handleDeleteNode"

\* the Undo and Redo buttons are disabled during a run and at the ends of
\* the history
UndoButton ==
    /\ ~(state.historyIndex <= 0 \/ state.isRunning)
    /\ BoardDispatch(handleUndo(state))
    /\ lastAction' = "handleUndo"

RedoButton ==
    /\ ~(state.historyIndex >= Len(state.history) - 1 \/ state.isRunning)
    /\ BoardDispatch(handleRedo(state))
    /\ lastAction' = "handleRedo"

KeyDown ==
    \E key \in Keys :
        /\ BoardDispatch(handleKeyDown(state, key))
        /\ lastAction' = "handleKeyDown"

\* the weight field of the Sidebar is shown while an edge is selected
WeightField ==
    \E value \in WeightTexts :
        /\ state.selectedEdgeId # Null
        /\ handleEdgeWeightChange(state, value) # NoDispatch
        /\ BoardDispatch(<<handleEdgeWeightChange(state, value)>>)
        /\ lastAction' = "handleEdgeWeightChange"

\* a run is started and ticks to its end while the board is used
NextBoard ==
    \/ StartAlgorithm
    \/ Tick
    \/ DeleteButton
    \/ UndoButton
    \/ RedoButton
    \/ KeyDown
    \/ WeightField
SpecBoard == InitBoard /\ [][NextBoard]_vars

----------------------------------------------------------------------------
(* Properties of the reducer                                               *)

NoDangling(g) ==
    \A e \in Range(g.edges) : e.from \in NodeIds(g) /\ e.to \in NodeIds(g)

Incident(e, id) == e.from = id \/ e.to = id

Joins(e, a, b) == {e.from, e.to} = {a, b}

\* the ids an argument of an action may be in the current state
IdsHere ==
    NodeIds(state.graph) \cup EdgeIds(state.graph)
    \cup {e.from : e \in Range(state.graph.edges)}
    \cup {e.to : e \in Range(state.graph.edges)}
    \cup (1..MaxIds) \cup {Null}

\* the recording actions, with every argument the model knows
RecordingActions ==
    {[type |-> "ADD_NODE", x |-> p.x, y |-> p.y, label |-> l] :
        p \in Points, l \in Labels}
    \cup {[type |-> "DELETE_NODE", nodeId |-> id] : id \in IdsHere}
    \cup {[type |-> "ADD_EDGE", fromNodeId |-> a, toNodeId |-> b, weight |-> w] :
            a \in IdsHere, b \in IdsHere, w \in Weights}
    \cup {[type |-> "DELETE_EDGE", edgeId |-> id] : id \in IdsHere}
    \cup {[type |-> "UPDATE_EDGE_WEIGHT", edgeId |-> id, weight |-> w] :
            id \in IdsHere, w \in Weights}
    \cup {[type |-> "CLEAR_GRAPH"]}
    \cup {[type |-> "LOAD_SAVED_GRAPH", graph |-> g] : g \in SavedGraphs}

NonRecordingTypes ==
    {"MOVE_NODE", "SELECT_NODE", "SELECT_EDGE", "SET_CURRENT_STEP",
     "RESET_GRAPH_STATUS", "SET_START_NODE", "SET_ALGORITHM", "SET_RUNNING",
     "SET_SPEED", "ADD_PATH_STEP", "CLEAR_PATH", "SET_TOTAL_MST_COST"}

C2_DeleteNodeCascades ==
    \A id \in IdsHere :
        LET t == graphReducer(state, [type |-> "DELETE_NODE", nodeId |-> id], nextId)
            keptNodes == {i \in DOMAIN state.graph.nodes : state.graph.nodes[i].id # id}
            keptEdges == {i \in DOMAIN state.graph.edges :
                            ~Incident(state.graph.edges[i], id)}
        IN  /\ id \notin NodeIds(t.graph)
            /\ \A e \in Range(t.graph.edges) : ~Incident(e, id)
            /\ Len(t.graph.nodes) = Cardinality(keptNodes)
            /\ Len(t.graph.edges) = Cardinality(keptEdges)
            /\ \A i \in keptNodes :
                 t.graph.nodes[Cardinality({j \in keptNodes : j <= i})]
                    = state.graph.nodes[i]
            /\ \A i \in keptEdges :
                 t.graph.edges[Cardinality({j \in keptEdges : j <= i})]
                    = state.graph.edges[i]

\* a DELETE_NODE removed a vertex and an edge of it and kept another edge
C2_Witness ==
    /\ lastAction = "DELETE_NODE"
    /\ state.historyIndex >= 1
    /\ Len(state.history[state.historyIndex].nodes) > Len(state.graph.nodes)
    /\ Len(state.history[state.historyIndex].edges) > Len(state.graph.edges)
    /\ state.graph.edges # <<>>

\* C3: ADD_EDGE(a, b) on a graph that holds an edge between a and b, stored
\* in either order, returns the pre-action state, every field unchanged.
C3_DuplicateEdgeIsNoOp ==
    \A a \in IdsHere, b \in IdsHere, w \in Weights :
        (\E e \in Range(state.graph.edges) : Joins(e, a, b))
            => graphReducer(state, [type |-> "ADD_EDGE", fromNodeId |-> a,
                                    toNodeId |-> b, weight |-> w], nextId) = state

\* an ADD_EDGE was dispatched between two distinct ids that an edge joined
C3_Witness ==
    /\ lastAction = "ADD_EDGE"
    /\ ~seen.recorded
    /\ \E e \in Range(state.graph.edges) : e.from # e.to

\* C4: in every state reachable by reducer actions other than
\* LOAD_SAVED_GRAPH, no two edges join the same unordered pair of vertices.
C4_AtMostOneEdgePerPair ==
    \A i \in DOMAIN state.graph.edges, j \in DOMAIN state.graph.edges :
        i # j => ~Joins(state.graph.edges[i],
                        state.graph.edges[j].from, state.graph.edges[j].to)

\* two edges are back in the live graph after an UNDO and a REDO
C4_Witness ==
    /\ lastAction = "REDO"
    /\ Len(state.graph.edges) = 2

\* C5: after N consecutive recording actions from live graph G0 to live
\* graph GN, N UNDOs give G0 back and N REDOs after them give GN back.
\* CLEAR_GRAPH restarts the history from initialState, and the live graph
\* of a state differs from the snapshot under the cursor after MOVE_NODE.
C5_UndoRedoRoundTrip ==
    /\ (run.n > 0 /\ run.undos = run.n /\ run.redos = 0) => state.graph = run.g0
    /\ (run.n > 0 /\ run.undos = run.n /\ run.redos = run.n) => state.graph = run.gN

\* C6: a recording edit that follows one or more UNDOs leaves the cursor on
\* the last index of the history, and REDO returns the state unchanged.
C6_BranchPruning ==
    (seen.recorded /\ seen.afterUndos >= 1)
        => /\ state.historyIndex = Len(state.history) - 1
           /\ graphReducer(state, [type |-> "REDO"], nextId) = state

\* a recording edit followed UNDOs that had left snapshots ahead of the cursor
C6_Witness ==
    /\ seen.recorded
    /\ seen.afterUndos >= 1
    /\ seen.ahead >= 1

\* C7: each recording action takes history H and cursor i to H[0..i]
\* followed by one snapshot equal to the resulting live graph, and to
\* cursor i + 1.
\* CLEAR_GRAPH builds its state from initialState: the history becomes the
\* initial snapshot followed by the empty graph, and the cursor 1.
C7_HistoryDiscipline ==
    \A a \in RecordingActions :
        recordsHistory(state, a) =>
            LET t == graphReducer(state, a, nextId)
            IN  /\ t.history = Append(SubSeq(state.history, 1, state.historyIndex + 1),
                                      t.graph)
                /\ t.historyIndex = state.historyIndex + 1

\* C8: an action that does not record history changes no history entry and
\* not the cursor; UNDO and REDO change no history entry.
C8_SnapshotsIndependent ==
    [][ /\ lastAction' \in NonRecordingTypes
            => /\ state'.history = state.history
               /\ state'.historyIndex = state.historyIndex
        /\ lastAction' \in {"UNDO", "REDO"} => state'.history = state.history ]_vars

\* after an UNDO set the live graph from a snapshot, a MOVE_NODE changed the
\* live graph
C8_Witness ==
    /\ lastAction = "MOVE_NODE"
    /\ state.historyIndex < Len(state.history) - 1
    /\ state.graph # state.history[state.historyIndex + 1]
    /\ state.graph.nodes # <<>>

----------------------------------------------------------------------------
(* Properties of the step producers                                        *)

\* the vertices reachable from the set S along the edges with indices in T
RECURSIVE Reach(_, _, _)
Reach(g, T, S) ==
    LET S2 == S \cup {g.edges[i].to : i \in {j \in T : g.edges[j].from \in S}}
                \cup {g.edges[i].from : i \in {j \in T : g.edges[j].to \in S}}
    IN  IF S2 = S THEN S ELSE Reach(g, T, S2)

Spans(g, T) ==
    /\ g.nodes # <<>>
    /\ Reach(g, T, {g.nodes[1].id}) = NodeIds(g)

Connected(g) == Spans(g, DOMAIN g.edges)

DistinctWeights(g) ==
    \A i \in DOMAIN g.edges, j \in DOMAIN g.edges :
        i # j => g.edges[i].weight # g.edges[j].weight

RECURSIVE WeightOf(_, _)
WeightOf(g, T) ==
    IF T = {} THEN 0
    ELSE LET i == CHOOSE j \in T : TRUE
         IN  g.edges[i].weight + WeightOf(g, T \ {i})

SpanningTrees(g) ==
    {T \in SUBSET DOMAIN g.edges :
        Cardinality(T) = Len(g.nodes) - 1 /\ Spans(g, T)}

\* the weight of a minimum spanning tree of a connected graph
MSTWeight(g) ==
    LET weights == {WeightOf(g, T) : T \in SpanningTrees(g)}
    IN  CHOOSE w \in weights : \A v \in weights : w <= v

\* the producer k after the resumption that makes it return
RECURSIVE kruskalRun(_)
kruskalRun(k) == IF k.pc = "returned" THEN k ELSE kruskalRun(kruskalMST(k))

\* C9: on a connected graph with pairwise distinct weights, from any start
\* vertex of it, the last step of primMST and the last step of kruskalMST
\* are done steps with the same totalCost, the weight of a minimum spanning
\* tree of the graph.
C9_PrimKruskalMinimum ==
    (/\ gen.alg \in {"prim", "kruskal"}
     /\ gen.pc = "returned"
     /\ Connected(gen.graph)
     /\ DistinctWeights(gen.graph)
     /\ gen.alg = "prim" => gen.startNodeId \in NodeIds(gen.graph))
        => /\ gen.step.type = "done"
           /\ gen.step.totalCost = MSTWeight(gen.graph)
           /\ gen.step.totalCost
                = kruskalRun(GenCall("kruskal", gen.graph, Null)).step.totalCost

\* primMST has returned on a triangle with three distinct weights
C9_Witness ==
    /\ gen.alg = "prim"
    /\ gen.pc = "returned"
    /\ Len(gen.graph.nodes) = 3
    /\ Len(gen.graph.edges) = 3
    /\ DistinctWeights(gen.graph)
    /\ gen.added = 2

\* C10 (as stated): at every point of a kruskalMST run on any graph, the
\* empty graph included, the number of addToMST steps yielded so far is at
\* most vertexCount - 1.
\* On the graph without vertices that number is 0 and vertexCount - 1 is -1.
C10_KruskalEdgeBound ==
    gen.alg = "kruskal" => gen.added <= Len(gen.graph.nodes) - 1

\* C10 (amended): at every point of a kruskalMST run on any graph with at
\* least one vertex (disconnected graphs included), the number of addToMST
\* steps yielded so far is at most vertexCount - 1.
C10_KruskalEdgeBound_NonEmpty ==
    (gen.alg = "kruskal" /\ gen.graph.nodes # <<>>)
        => gen.added <= Len(gen.graph.nodes) - 1

\* kruskalMST has returned on a triangle after accepting two edges
C10_Witness ==
    /\ gen.alg = "kruskal"
    /\ gen.pc = "returned"
    /\ Len(gen.graph.nodes) = 3
    /\ Len(gen.graph.edges) = 3
    /\ gen.added = Len(gen.graph.nodes) - 1

\* the edge of graph g with the given id (NoEdge if none)
EdgeById(g, id) ==
    IF id \in EdgeIds(g) THEN CHOOSE e \in Range(g.edges) : e.id = id ELSE NoEdge

\* C11: in a primMST run, each addToMST step names a vertex that was not
\* visited before the step, the step adds exactly that vertex, its edge
\* joins a vertex visited before to the added one, and after k addToMST
\* steps the visited set has k + 1 vertices.
C11_PrimGrowsByOne ==
    [][ gen'.alg = "prim" =>
          /\ gen'.pc = "addToMST" =>
                LET edge == EdgeById(gen.graph, gen'.step.edgeId)
                    v == gen'.step.nodeId
                IN  /\ gen'.step.type = "addToMST"
                    /\ v \notin Range(gen.visited)
                    /\ Range(gen'.visited) = Range(gen.visited) \cup {v}
                    /\ Len(gen'.visited) = Len(gen.visited) + 1
                    /\ edge # NoEdge
                    /\ \E u \in Range(gen.visited) : Joins(edge, u, v)
                    /\ gen'.added = gen.added + 1
          /\ gen'.pc # "addToMST" =>
                gen'.added = gen.added /\ gen'.step.type # "addToMST"
          /\ gen'.visited # <<>> =>
                Cardinality(Range(gen'.visited)) = gen'.added + 1 ]_vars

\* primMST has yielded its second addToMST step
C11_Witness ==
    /\ gen.alg = "prim"
    /\ gen.pc = "addToMST"
    /\ gen.added = 2
    /\ Len(gen.visited) = 3

----------------------------------------------------------------------------
(* The steps of a run, read from the log of the steps yielded so far.      *)

\* how many of the steps are of this type and name this vertex
Named(steps, type, v) ==
    Cardinality({i \in DOMAIN steps : steps[i].type = type /\ steps[i].nodeId = v})

\* the steps of this type, in the order yielded
OfType(steps, type) == SelectSeq(steps, LAMBDA st : st.type = type)

ValidStart(g) == g.startNodeId # Null /\ g.startNodeId \in NodeIds(g.graph)

Reachable(g) == Reach(g.graph, DOMAIN g.graph.edges, {g.startNodeId})

Ended(g) == g.pc \in {"done", "returned"}

\* the search visits once, as a predicate of one run
VisitsOnce(g) ==
    /\ \A v \in NodeIds(g.graph) :
          \A type \in {"visitNode", "processNode", "completeNode"} :
              Named(g.steps, type, v) <= 1
    /\ \A i \in DOMAIN g.steps :
          g.steps[i].nodeId # Null => g.steps[i].nodeId \in Reachable(g)
    /\ Ended(g) => Range(g.visited) = Reachable(g)

\* C12: in a bfs run and in a dfs run from a valid start vertex, every
\* vertex reachable from the start is visited, no vertex is named by more
\* than one visitNode step, more than one processNode step or more than one
\* completeNode step, and a vertex not reachable from the start is named by
\* no step.
C12_SearchVisitsOnce ==
    (gen.alg \in {"bfs", "dfs"} /\ ValidStart(gen)) => VisitsOnce(gen)

\* the sum of the weights of the edges named by the addToMST steps
RECURSIVE AddedWeight(_, _)
AddedWeight(g, steps) ==
    IF steps = <<>> THEN 0
    ELSE (IF Head(steps).type = "addToMST"
          THEN EdgeById(g, Head(steps).edgeId).weight ELSE 0)
         + AddedWeight(g, Tail(steps))

\* the edges of the steps of these types, with the types, in the order yielded
EdgesOf(steps, types) ==
    LET sel == SelectSeq(steps, LAMBDA st : st.type \in types)
    IN  [i \in DOMAIN sel |-> <<sel[i].type, sel[i].edgeId>>]

\* C13: on the example graph (A, B, C, D with A-B 2, B-C 3, A-C 1, C-D 4)
\* primMST from A accepts A-C, A-B, C-D in this order, kruskalMST accepts
\* A-C, A-B, skips B-C and accepts C-D, and the last step of each carries
\* totalCost 7; in every run of either producer that gets past the start
\* check the last done step carries the sum of the weights of the edges
\* named by the addToMST steps.
C13_TotalCostIsSumOfAdded ==
    /\ (gen.alg \in {"prim", "kruskal"} /\ gen.pc = "done"
            /\ (gen.alg = "prim" => ValidStart(gen))) =>
          /\ gen.step.type = "done"
          /\ gen.step.totalCost = AddedWeight(gen.graph, gen.steps)
          /\ gen.step.totalCost = gen.totalCost
    /\ (gen.graph = ExampleGraph /\ gen.pc = "done") =>
          /\ gen.step.totalCost = 7
          /\ gen.alg = "prim" =>
                EdgesOf(gen.steps, {"addToMST"}) =
                    << <<"addToMST", 7>>, <<"addToMST", 5>>, <<"addToMST", 8>> >>
          /\ gen.alg = "kruskal" =>
                EdgesOf(gen.steps, {"addToMST", "skipEdge"}) =
                    << <<"addToMST", 7>>, <<"addToMST", 5>>,
                       <<"skipEdge", 6>>, <<"addToMST", 8>> >>

C13_Witness ==
    /\ gen.graph = ExampleGraph /\ gen.alg = "kruskal" /\ gen.pc = "done"
    /\ gen.step.totalCost = 7 /\ gen.added = 3

\* a run on the graph of one vertex and no edge, started from that vertex
SingleVertexRun(g) ==
    /\ Len(g.graph.nodes) = 1
    /\ g.graph.edges = <<>>
    /\ g.startNodeId = g.graph.nodes[1].id

\* C14: on a graph with a single vertex and no edges, started from that
\* vertex, bfs and dfs end with a done step reporting exactly 1 visited
\* vertex, and primMST yields no addToMST step and ends with a done step
\* that signals completion (not disconnection) with 0 edges and totalCost 0.
C14_SingleVertex ==
    (SingleVertexRun(gen) /\ Ended(gen)) =>
        /\ gen.step.type = "done"
        /\ gen.step = gen.steps[Len(gen.steps)]
        /\ gen.alg \in {"bfs", "dfs"} =>
              /\ gen.step.message = "completed"
              /\ gen.step.count = 1
        /\ gen.alg = "prim" =>
              /\ OfType(gen.steps, "addToMST") = <<>>
              /\ gen.step.message = "completed"
              /\ gen.step.count = 0
              /\ gen.step.totalCost = 0

C14_Witness ==
    /\ SingleVertexRun(gen) /\ gen.alg = "dfs" /\ gen.pc = "returned"
    /\ gen.step.count = 1

\* the edges with one end in the visited set and the other outside it
Crossing(g) ==
    {e \in Range(g.graph.edges) :
        \E u \in Range(g.visited), v \in NodeIds(g.graph) \ Range(g.visited) :
            Joins(e, u, v)}

\* primMST is at the head of its while loop, unvisited vertices remain and
\* no edge leads from the visited set to one of them
Stuck(g) ==
    /\ g.pc \in {"visitNode", "addToMST"}
    /\ Len(g.visited) < Len(g.graph.nodes)
    /\ Crossing(g) = {}

\* C15: whenever a scan of primMST finds no edge from the visited set to an
\* unvisited vertex while unvisited vertices remain, the next step is a done
\* step with the disconnected signal that carries the cost accumulated so
\* far, and nothing is yielded after it (the disconnected signal is given in
\* no other case); on two vertices and no edge that cost is 0 from either
\* start.
C15_PrimDisconnected ==
    [][ (gen.alg = "prim" /\ ValidStart(gen)) =>
          /\ Stuck(gen) =>
                /\ gen'.pc = "done"
                /\ gen'.step.type = "done"
                /\ gen'.step.message = "disconnected"
                /\ gen'.step.totalCost = gen.totalCost
                /\ gen'.step.totalCost = AddedWeight(gen.graph, gen.steps)
                /\ gen'.steps = Append(gen.steps, gen'.step)
          /\ (gen'.pc = "done" /\ gen'.step.message = "disconnected") => Stuck(gen)
          /\ gen.pc = "done" => (gen'.pc = "returned" /\ gen'.steps = gen.steps)
          /\ (Len(gen.graph.nodes) = 2 /\ gen.graph.edges = <<>> /\ gen'.pc = "done") =>
                (gen'.step.message = "disconnected" /\ gen'.step.totalCost = 0) ]_vars

\* a run that accepted an edge and then found the third vertex out of reach
C15_Witness ==
    /\ gen.alg = "prim" /\ gen.pc = "returned"
    /\ gen.step.message = "disconnected"
    /\ gen.step.totalCost > 0
    /\ gen.added = 1

\* C16: when the start vertex id is unset or is not the id of a vertex of
\* the graph, primMST, bfs and dfs yield exactly one step, a done step
\* without totalCost, and then end.
C16_InvalidStart ==
    (gen.alg \in {"prim", "bfs", "dfs"} /\ ~ValidStart(gen)) =>
        /\ gen.pc \in {"called", "done", "returned"}
        /\ gen.pc = "called" => gen.steps = <<>>
        /\ gen.pc \in {"done", "returned"} =>
              /\ Len(gen.steps) = 1
              /\ gen.steps[1].type = "done"
              /\ gen.steps[1].message = "noStart"
              /\ gen.steps[1].totalCost = NoCost
              /\ gen.steps[1].nodeId = Null /\ gen.steps[1].edgeId = Null

\* dfs has ended on a graph with vertices, called with the id of no vertex
C16_Witness ==
    /\ gen.alg = "dfs" /\ gen.pc = "returned" /\ Len(gen.steps) = 1
    /\ gen.graph.nodes # <<>>
    /\ gen.startNodeId # Null /\ gen.startNodeId \notin NodeIds(gen.graph)

\* C17: DELETE_NODE or DELETE_EDGE with an id that is not in the live graph
\* returns the state unchanged: graph, selections, start vertex, history and
\* history cursor all equal their values before the action.
C17_DeleteAbsentIsNoOp ==
    \A id \in IdsHere :
        /\ id \notin NodeIds(state.graph) =>
              graphReducer(state, [type |-> "DELETE_NODE", nodeId |-> id], nextId)
                  = state
        /\ id \notin EdgeIds(state.graph) =>
              graphReducer(state, [type |-> "DELETE_EDGE", edgeId |-> id], nextId)
                  = state

\* C18: in every state reachable from the initial state by reducer actions,
\* selectedNodeId and selectedEdgeId are never both non-null.
C18_OneSelection ==
    ~(state.selectedNodeId # Null /\ state.selectedEdgeId # Null)

\* an ADD_EDGE selected its edge in a graph whose last vertex was selected
\* when it was added
C18_Witness ==
    /\ lastAction = "ADD_EDGE"
    /\ state.selectedEdgeId # Null
    /\ state.selectedNodeId = Null
    /\ state.graph.nodes # <<>>

----------------------------------------------------------------------------
(* Vertex statuses during a visualisation                                  *)

\* a non-null step has just been applied
StepApplied == lastAction = "SET_CURRENT_STEP" /\ state.currentStep # NoStep

\* the rules of the vertex status, with the condition of each
StatusRules(node) ==
    << <<node.id = state.startNodeId, "start">>,
       <<node.id \in state.completedNodes, "completed">>,
       <<state.currentStep.type \in {"processNode", "addToMST"}
            /\ state.currentStep.nodeId = node.id, "current">>,
       <<node.id \in state.visitedNodes, "visited">>,
       <<TRUE, "default">> >>

\* C19: after SET_CURRENT_STEP with a non-null step, the status of every
\* vertex is that of the first rule that matches it, of: start vertex ->
\* start; in the completed set (the step's own update included) ->
\* completed; named by a processNode or addToMST step -> current; in the
\* visited set -> visited; otherwise default.
C19_StatusPriority ==
    StepApplied =>
        \A node \in Range(state.graph.nodes) :
            LET rules == StatusRules(node)
                first == CHOOSE i \in DOMAIN rules :
                            rules[i][1] /\ \A j \in 1..(i - 1) : ~rules[j][1]
            IN  /\ node.status = rules[first][2]
                /\ (state.currentStep.type \in {"completeNode", "addToMST"}
                        /\ state.currentStep.nodeId = node.id)
                      => node.id \in state.completedNodes

\* a processNode step names a vertex that another step completed before, in
\* a graph whose other vertex is the start vertex
C19_Witness ==
    /\ StepApplied
    /\ state.currentStep.type = "processNode"
    /\ state.currentStep.nodeId \in state.completedNodes
    /\ \E v \in Range(state.graph.nodes), w \in Range(state.graph.nodes) :
          /\ v.id = state.currentStep.nodeId /\ v.status = "completed"
          /\ w.id = state.startNodeId /\ w.status = "start"
          /\ w.id \in state.completedNodes

\* C20: once a completeNode or addToMST step naming vertex v has been
\* applied, then after every later application of a non-null step, until a
\* RESET_GRAPH_STATUS, SET_START_NODE, SET_ALGORITHM, null step,
\* CLEAR_GRAPH or LOAD_SAVED_GRAPH, v has status completed, or start if v
\* is the start vertex; and the start vertex has status start after every
\* application of a non-null step.
C20_StatusStable ==
    StepApplied =>
        \A node \in Range(state.graph.nodes) :
            /\ node.id = state.startNodeId => node.status = "start"
            /\ (node.id \in seen.named /\ node.id # state.startNodeId)
                  => node.status = "completed"

\* a vertex completed by an earlier step is still completed while the last
\* step names the other vertex
C20_Witness ==
    /\ StepApplied
    /\ state.currentStep.type = "processNode"
    /\ \E v \in Range(state.graph.nodes), w \in Range(state.graph.nodes) :
          /\ v.id \in seen.named /\ v.id # state.startNodeId
          /\ v.status = "completed"
          /\ w.id = state.currentStep.nodeId /\ w.id # v.id
          /\ w.status = "current"

----------------------------------------------------------------------------
(* Edge statuses under SET_CURRENT_STEP                                    *)

\* the step an action has just applied is non-null
AppliesStep == lastAction' = "SET_CURRENT_STEP" /\ state'.currentStep # NoStep

\* from state to state': the edges are the same but for their statuses,
\* every edge the step names has the status that paint gives for the kind
\* of the step, every other edge has the status it had
EdgesPainted(paint(_)) ==
    LET step == state'.currentStep
    IN  /\ DOMAIN state'.graph.edges = DOMAIN state.graph.edges
        /\ \A i \in DOMAIN state.graph.edges :
              LET edge == state.graph.edges[i]
                  edge2 == state'.graph.edges[i]
              IN  /\ [edge2 EXCEPT !.status = edge.status] = edge
                  /\ edge2.status =
                        IF step.edgeId # Null /\ edge.id = step.edgeId
                        THEN paint(step.type) ELSE edge.status

PaintAsStated(type) ==
    IF type \in {"visitEdge", "currentEdge"} THEN "current"
    ELSE IF type \in {"addToMST", "traverseEdge"} THEN "visited"
    ELSE "default"

PaintWithMst(type) ==
    IF type \in {"visitEdge", "currentEdge"} THEN "current"
    ELSE IF type \in {"addToMST", "traverseEdge", "mst"} THEN "visited"
    ELSE "default"

\* C21 (as stated): SET_CURRENT_STEP with a non-null step that names an edge
\* sets the status of that edge to current for the kinds visitEdge and
\* currentEdge, to visited for the kinds addToMST and traverseEdge, and to
\* default for any other kind, and leaves the status of every other edge
\* unchanged; a step that names no edge leaves all edge statuses unchanged.
C21_EdgePainting == [][AppliesStep => EdgesPainted(PaintAsStated)]_vars

\* C21 (amended): the same, with the kind mst painted visited like addToMST
\* and traverseEdge.
C21_EdgePainting_Mst == [][AppliesStep => EdgesPainted(PaintWithMst)]_vars

\* a visitEdge step painted the edge it names, which a saved graph brought
\* in as visited, and left the other edge as it was
C21_Witness ==
    /\ lastAction = "SET_CURRENT_STEP"
    /\ state.currentStep.type = "visitEdge"
    /\ Len(state.graph.edges) = 2
    /\ \E e \in Range(state.graph.edges) :
          e.id = state.currentStep.edgeId /\ e.status = "current"
    /\ \E e \in Range(state.graph.edges) :
          e.id # state.currentStep.edgeId /\ e.status = "default"

----------------------------------------------------------------------------
(* The frame of UNDO and REDO                                              *)

\* from state to state' only the live graph, the cursor and the two
\* selections may differ
OnlyGraphCursorSelections ==
    state' = [state EXCEPT !.graph = state'.graph,
                           !.historyIndex = state'.historyIndex,
                           !.selectedNodeId = state'.selectedNodeId,
                           !.selectedEdgeId = state'.selectedEdgeId]

\* C22: UNDO and REDO change only the live graph, the history cursor and
\* the two selections, which they set to null; algorithm, isRunning, speed,
\* currentStep, startNodeId, totalMSTCost, pathTaken, the visited and
\* completed sets and the history contents are unchanged; UNDO at cursor 0
\* and REDO at the last index return the state unchanged.
C22_UndoRedoFrame ==
    [][ /\ lastAction' = "UNDO" =>
              IF state.historyIndex = 0 THEN state' = state
              ELSE /\ OnlyGraphCursorSelections
                   /\ state'.historyIndex = state.historyIndex - 1
                   /\ state'.selectedNodeId = Null /\ state'.selectedEdgeId = Null
        /\ lastAction' = "REDO" =>
              IF state.historyIndex = Len(state.history) - 1 THEN state' = state
              ELSE /\ OnlyGraphCursorSelections
                   /\ state'.historyIndex = state.historyIndex + 1
                   /\ state'.selectedNodeId = Null /\ state'.selectedEdgeId = Null ]_vars

\* an UNDO moved the cursor back in a state that displays a step
C22_Witness ==
    /\ lastAction = "UNDO"
    /\ state.historyIndex < Len(state.history) - 1
    /\ state.currentStep # NoStep
    /\ state.visitedNodes # {}

----------------------------------------------------------------------------
(* Properties of the Sidebar                                               *)

\* the producer of the Sidebar has been pulled to the end by the last tick
PulledToEnd == lastAction = "tick" /\ gen # GenIdle /\ gen.pc = "returned"

\* C23: when the Sidebar has run primMST or kruskalMST to the end of its
\* sequence, totalMSTCost is the totalCost carried by the last done step of
\* the producer, and isRunning is false.
C23_CostAfterRun ==
    (PulledToEnd /\ gen.alg \in {"prim", "kruskal"}) =>
        /\ gen.step.type = "done"
        /\ state.totalMSTCost = gen.step.totalCost
        /\ ~state.isRunning

\* C24: under any interleaving of pause, resume and speed changes with the
\* timer ticks of a run, the steps dispatched as SET_CURRENT_STEP are the
\* steps of the producer, in order, none skipped and none applied twice, and
\* no step is applied while isRunning is false.
C24_NoProgressLost ==
    [][ /\ gen' # GenIdle => driver'.applied = gen'.steps
        /\ lastAction' \in {"handleTogglePause", "handleSpeedChange"} =>
              /\ gen' = gen
              /\ driver'.applied = driver.applied
              /\ state'.currentStep = state.currentStep
        /\ driver'.applied # driver.applied /\ driver'.applied # <<>> =>
              /\ lastAction' = "tick"
              /\ state.isRunning
              /\ driver'.applied = Append(driver.applied, gen'.step)
              /\ state'.currentStep = gen'.step ]_vars

\* a run was resumed at the other speed after some of its steps, with steps
\* left to pull
C24_Witness ==
    /\ lastAction = "handleTogglePause"
    /\ state.isRunning
    /\ gen # GenIdle /\ gen.pc \notin {"called", "done", "returned"}
    /\ Len(driver.applied) >= 2
    /\ state.speed # initialState.speed
    /\ ~driver.retired

\* C25: after the run was reset or an algorithm was selected (also while a
\* run is paused) the producer created before is discarded: no later tick
\* pulls a step from it, the next step applied comes from a producer that a
\* new Start created.
C25_ProducerDiscarded ==
    [][ lastAction' = "tick" => ~driver.retired ]_vars

----------------------------------------------------------------------------
(* The order of the steps of a run                                         *)

\* the positions in the log of the steps of this type
Positions(steps, type) == {p \in DOMAIN steps : steps[p].type = type}

\* the position in graph.edges of the edge with this id
EdgeIndex(g, id) == CHOOSE i \in DOMAIN g.edges : g.edges[i].id = id

\* the positions in graph.edges of the edges that the addToMST steps before
\* position p name
AcceptedBefore(g, p) ==
    {EdgeIndex(g.graph, g.steps[q].edgeId) :
        q \in {r \in Positions(g.steps, "addToMST") : r < p}}

\* C26: kruskalMST yields its visitEdge steps in nondecreasing weight, edges
\* of equal weight in their order in graph.edges; each visited edge is
\* followed by addToMST exactly when its ends lay in different components
\* of the edges accepted so far, and by skipEdge otherwise; no edge is
\* visited after the accepted count has reached vertexCount - 1.
C26_KruskalOrder ==
    gen.alg = "kruskal" =>
        LET visits == Positions(gen.steps, "visitEdge")
            edgeAt(p) == EdgeById(gen.graph, gen.steps[p].edgeId)
        IN  /\ \A p \in visits, q \in visits :
                  p < q =>
                      /\ edgeAt(p).weight <= edgeAt(q).weight
                      /\ edgeAt(p).weight = edgeAt(q).weight =>
                            EdgeIndex(gen.graph, edgeAt(p).id)
                                < EdgeIndex(gen.graph, edgeAt(q).id)
            /\ \A p \in visits :
                  LET apart == edgeAt(p).to \notin
                                  Reach(gen.graph, AcceptedBefore(gen, p),
                                        {edgeAt(p).from})
                  IN  /\ edgeAt(p) # NoEdge
                      /\ Cardinality(AcceptedBefore(gen, p))
                            < Len(gen.graph.nodes) - 1
                      /\ IF p = Len(gen.steps) THEN gen.pc = "visitEdge"
                         ELSE /\ gen.steps[p + 1].edgeId = edgeAt(p).id
                              /\ gen.steps[p + 1].type =
                                    IF apart THEN "addToMST" ELSE "skipEdge"
            /\ \A p \in Positions(gen.steps, "addToMST")
                        \cup Positions(gen.steps, "skipEdge") :
                  p > 1 /\ gen.steps[p - 1].type = "visitEdge"

\* a run that accepted two edges, skipped the third as its ends were already
\* joined, and accepted a fourth
C26_Witness ==
    /\ gen.alg = "kruskal" /\ gen.pc = "returned"
    /\ Cardinality(Positions(gen.steps, "skipEdge")) = 1
    /\ Cardinality(Positions(gen.steps, "addToMST")) = 3
    /\ \E p \in Positions(gen.steps, "skipEdge"),
          q \in Positions(gen.steps, "addToMST") : p < q

\* the vertices named by the steps of this type, in the order yielded
NodesOf(steps, type) ==
    LET sel == OfType(steps, type) IN [i \in DOMAIN sel |-> sel[i].nodeId]

\* the position in the log of the first step of this type naming vertex v
\* (0 when there is none)
FirstAt(steps, type, v) ==
    LET at == {p \in Positions(steps, type) : steps[p].nodeId = v}
    IN  IF at = {} THEN 0 ELSE CHOOSE p \in at : \A q \in at : p <= q

IsPrefix(s, t) == Len(s) <= Len(t) /\ s = SubSeq(t, 1, Len(s))

\* the number of edges on a shortest path from the set S to the vertex v,
\* which is reachable from S, counted from k
RECURSIVE Hops(_, _, _, _)
Hops(g, S, v, k) ==
    IF v \in S THEN k
    ELSE Hops(g,
              S \cup {e.to : e \in {f \in Range(g.edges) : f.from \in S}}
                \cup {e.from : e \in {f \in Range(g.edges) : f.to \in S}},
              v, k + 1)

\* C27: in every bfs run the processNode steps name the vertices in the
\* order in which they were discovered (the start first, then in the order
\* of their traverseEdge steps), so vertices are processed in nondecreasing
\* hop distance from the start, and each reachable vertex other than the
\* start is named by exactly one traverseEdge step, which precedes its
\* processNode step.
C27_BfsOrder ==
    (gen.alg = "bfs" /\ ValidStart(gen)) =>
        LET processed == NodesOf(gen.steps, "processNode")
            discovered == <<gen.startNodeId>> \o NodesOf(gen.steps, "traverseEdge")
        IN  /\ IsPrefix(processed, discovered)
            /\ Ended(gen) => processed = discovered
            /\ \A i \in DOMAIN processed, j \in DOMAIN processed :
                  i < j => Hops(gen.graph, {gen.startNodeId}, processed[i], 0)
                              <= Hops(gen.graph, {gen.startNodeId}, processed[j], 0)
            /\ Named(gen.steps, "traverseEdge", gen.startNodeId) = 0
            /\ \A v \in Reachable(gen) \ {gen.startNodeId} :
                  /\ Named(gen.steps, "traverseEdge", v) <= 1
                  /\ Ended(gen) => Named(gen.steps, "traverseEdge", v) = 1
                  /\ Named(gen.steps, "processNode", v) > 0 =>
                        /\ FirstAt(gen.steps, "traverseEdge", v) > 0
                        /\ FirstAt(gen.steps, "traverseEdge", v)
                              < FirstAt(gen.steps, "processNode", v)

\* a finished bfs run over three vertices, both others discovered from the
\* start
C27_Witness ==
    /\ gen.alg = "bfs" /\ gen.pc = "returned"
    /\ Len(NodesOf(gen.steps, "processNode")) = 3
    /\ Len(NodesOf(gen.steps, "traverseEdge")) = 2
    /\ Len(gen.graph.edges) = 2
    /\ \A e \in Range(gen.graph.edges) : gen.startNodeId \in {e.from, e.to}

\* the vertices first entered after the first visitNode of v and before
\* position c of the log
EnteredWithin(steps, v, c) ==
    {u \in {steps[p].nodeId : p \in Positions(steps, "visitNode")} \ {v} :
        /\ FirstAt(steps, "visitNode", v) < FirstAt(steps, "visitNode", u)
        /\ FirstAt(steps, "visitNode", u) < c}

\* C28: in every dfs run each reachable vertex is named by exactly one
\* completeNode step, the completeNode of a vertex v comes after the
\* completeNode of every vertex first entered between the first visitNode
\* of v and the completeNode of v, and the start vertex is completed last.
C28_DfsPostOrder ==
    (gen.alg = "dfs" /\ ValidStart(gen)) =>
        LET completed == NodesOf(gen.steps, "completeNode")
        IN  /\ \A v \in NodeIds(gen.graph) :
                  /\ Named(gen.steps, "completeNode", v) <= 1
                  /\ (Ended(gen) /\ v \in Reachable(gen)) =>
                        Named(gen.steps, "completeNode", v) = 1
            /\ \A c \in Positions(gen.steps, "completeNode") :
                  LET v == gen.steps[c].nodeId
                  IN  /\ FirstAt(gen.steps, "visitNode", v) \in 1..(c - 1)
                      /\ \A u \in EnteredWithin(gen.steps, v, c) :
                            FirstAt(gen.steps, "completeNode", u) \in 1..(c - 1)
            /\ \A i \in DOMAIN completed :
                  completed[i] = gen.startNodeId => i = Len(completed)
            /\ Ended(gen) =>
                  /\ completed # <<>>
                  /\ completed[Len(completed)] = gen.startNodeId

\* a finished dfs run that went three calls deep: all three vertices were
\* entered before the first was completed
C28_Witness ==
    /\ gen.alg = "dfs" /\ gen.pc = "returned"
    /\ Len(NodesOf(gen.steps, "completeNode")) = 3
    /\ \A p \in Positions(gen.steps, "visitNode"),
          c \in Positions(gen.steps, "completeNode") : p < c

\* the producer has returned and the last step it yielded is a done step
EndedWithDone ==
    /\ gen.pc = "returned"
    /\ gen.steps # <<>>
    /\ gen.steps[Len(gen.steps)].type = "done"

\* C29: on every graph and for every start vertex, each of primMST,
\* kruskalMST, bfs and dfs, pulled repeatedly, ends after finitely many
\* steps, and the last step it yields is a done step.
C29_ProducersEnd == <>EndedWithDone

\* a producer that has returned after a run over three vertices and three
\* edges
C29_Witness ==
    /\ EndedWithDone
    /\ Len(gen.graph.nodes) = 3
    /\ Len(gen.graph.edges) = 3
    /\ Len(gen.steps) > 2 * Len(gen.graph.edges)

----------------------------------------------------------------------------
(* Labels of added vertices                                                *)

\* the label is the decimal text of a natural number
IsNumeric(label) == label # <<>> /\ \A i \in DOMAIN label : IsDigit(label[i])

\* the numbers that the numeric labels of these vertices denote
NumericLabels(nodes) ==
    {parseInt(n.label) : n \in {m \in Range(nodes) : IsNumeric(m.label)}}

\* C30: ADD_NODE without a label appends one vertex whose label is the
\* decimal text of 1 + the largest numeric label among the existing
\* vertices (1 when there is none), so the new label differs from every
\* existing numeric label; the new vertex becomes the selected vertex and
\* the edge selection is cleared.
C30_AutoLabel ==
    [][lastAction' = "ADD_NODE without label" =>
        LET nodes == state.graph.nodes
            after == state'.graph.nodes
            numeric == NumericLabels(nodes)
        IN  /\ Len(after) = Len(nodes) + 1
            /\ SubSeq(after, 1, Len(nodes)) = nodes
            /\ after[Len(after)].label =
                  toString(IF numeric = {} THEN 1 ELSE SetMax(numeric) + 1)
            /\ \A n \in Range(nodes) :
                  IsNumeric(n.label) => n.label # after[Len(after)].label
            /\ state'.selectedNodeId = after[Len(after)].id
            /\ state'.selectedEdgeId = Null]_vars

----------------------------------------------------------------------------
(* The weights of the edges                                                *)

\* C31: when UPDATE_EDGE_WEIGHT is dispatched only by the handler of the
\* weight field (which dispatches only when the parsed weight is > 0) and
\* ADD_EDGE only with weight 1 or none, every edge of every reachable state
\* has an integer weight >= 1; the reducer itself applies
\* UPDATE_EDGE_WEIGHT with whatever weight it is given.
C31_WeightsPositive ==
    /\ \A h \in Range(state.history) \cup {state.graph} :
          \A e \in Range(h.edges) : e.weight \in Nat /\ e.weight >= 1
    /\ \A e \in Range(state.graph.edges), w \in {NaN, 0, 2} :
          EdgeById(UPDATE_EDGE_WEIGHT(state, [type |-> "UPDATE_EDGE_WEIGHT",
                                              edgeId |-> e.id,
                                              weight |-> w]).graph, e.id).weight = w

\* the weight field has changed the weight of an added edge from 1 to 2,
\* after texts that it turned away
C31_Witness ==
    /\ lastAction = "handleEdgeWeightChange"
    /\ state.graph.edges # <<>>
    /\ state.graph.edges[1].id <= MaxWeightIds
    /\ state.graph.edges[1].weight = 2
    /\ state.historyIndex > 0
    /\ state.history[state.historyIndex].edges # <<>>
    /\ state.history[state.historyIndex].edges[1].weight = 1
    /\ handleEdgeWeightChange(state, <<"0">>) = NoDispatch

\* no edge of the graph joins a vertex to itself
NoSelfLoop(g) == \A e \in Range(g.edges) : e.from # e.to

\* C32 (as stated): in no state reachable by reducer edit actions with
\* arbitrary arguments does the live graph contain an edge with from = to.
\* ADD_EDGE does not compare its two ids: ADD_EDGE(1, 1) stores an edge
\* from vertex 1 to itself.
C32_NoSelfLoop == NoSelfLoop(state.graph)

\* C32 (amended): in no state reachable by reducer edit actions in which
\* every ADD_EDGE named two different ids when it was dispatched (the other
\* arguments arbitrary) does the live graph contain an edge with from = to.
C32_NoSelfLoop_DistinctEnds == seen.distinctEnds => NoSelfLoop(state.graph)

\* an edge between two different vertices was added, removed by UNDO and
\* brought back by REDO
C32_Witness ==
    /\ seen.distinctEnds
    /\ lastAction = "REDO"
    /\ state.graph.edges # <<>>
    /\ state.graph.nodes # <<>>
    /\ state.graph.edges[1].from = state.graph.nodes[1].id

\* C33: in every state reachable by any sequence of reducer actions, the
\* history is non-empty and 0 <= historyIndex <= length(history) - 1.
C33_CursorInHistory ==
    /\ state.history # <<>>
    /\ 0 <= state.historyIndex
    /\ state.historyIndex <= Len(state.history) - 1

\* the cursor is back at the first snapshot with two snapshots ahead of it
C33_Witness ==
    /\ lastAction = "UNDO"
    /\ state.historyIndex = 0
    /\ Len(state.history) = 3

----------------------------------------------------------------------------
(* Start vertex and selection against the live graph                       *)

\* C34: in every state reachable by reducer actions whose id arguments name
\* elements of the live graph when they are dispatched (UNDO, REDO and
\* LOAD_SAVED_GRAPH included), startNodeId is null or the id of a vertex of
\* the live graph.
C34_StartIsLive ==
    state.startNodeId = Null \/ state.startNodeId \in NodeIds(state.graph)

\* C35: in every state reachable by reducer actions whose id arguments name
\* elements of the live graph when they are dispatched, selectedNodeId is
\* null or the id of a vertex of the live graph and selectedEdgeId is null
\* or the id of an edge of the live graph, in particular after DELETE_NODE
\* of an end of the selected edge.
C35_SelectionIsLive ==
    /\ state.selectedNodeId = Null \/ state.selectedNodeId \in NodeIds(state.graph)
    /\ state.selectedEdgeId = Null \/ state.selectedEdgeId \in EdgeIds(state.graph)

----------------------------------------------------------------------------
(* The statuses on the board during a run.  In the runs below every step   *)
(* the producer has yielded has been applied, in order, to a board whose   *)
(* statuses Start had reset.                                               *)

\* the ids of the edges of the graph that have this status
EdgesWithStatus(g, status) == {e.id : e \in {f \in Range(g.edges) : f.status = status}}

\* the ids of the edges named by the traverseEdge and addToMST steps
Accepted(steps) ==
    {steps[p].edgeId :
        p \in Positions(steps, "traverseEdge") \cup Positions(steps, "addToMST")}

\* the terminal step of the run has been applied
TerminalApplied ==
    /\ gen # GenIdle
    /\ gen.pc \in {"done", "returned"}
    /\ gen.steps # <<>>
    /\ driver.applied = gen.steps

\* C36: when the steps of one run of any of the four producers are applied
\* in order through SET_CURRENT_STEP, an edge that a traverseEdge or
\* addToMST step has given the status visited still has it after every
\* later step of the run, and after the terminal step the visited edges are
\* exactly the accepted edges (prim, kruskal) or the tree edges (bfs, dfs).
C36_VisitedStays ==
    (gen # GenIdle /\ driver.applied = gen.steps) =>
        /\ Accepted(gen.steps) \subseteq EdgesWithStatus(state.graph, "visited")
        /\ TerminalApplied =>
              EdgesWithStatus(state.graph, "visited") = Accepted(gen.steps)

\* C37: when the steps of one run of any of the four producers are applied
\* in order through SET_CURRENT_STEP from all-default statuses, at most one
\* edge has the status current after each applied step, and none has it
\* after the terminal done step.
C37_OneCurrentEdge ==
    (gen # GenIdle /\ driver.applied = gen.steps) =>
        /\ Cardinality(EdgesWithStatus(state.graph, "current")) <= 1
        /\ TerminalApplied => EdgesWithStatus(state.graph, "current") = {}

\* C38: when all steps of a primMST or kruskalMST run on a connected graph
\* are applied in order through SET_CURRENT_STEP, every vertex other than
\* the start vertex has the status completed after the terminal step.
C38_AllCompleted ==
    (TerminalApplied /\ gen.alg \in {"prim", "kruskal"} /\ Connected(gen.graph)) =>
        \A n \in Range(state.graph.nodes) :
            n.id # state.startNodeId => n.status = "completed"
----------------------------------------------------------------------------
(* C39: in every state reachable through the Sidebar's controls, isRunning *)
(* = TRUE implies that a producer instance exists for the timer to pull    *)
(* from: isRunning never holds with no producer.                           *)
C39_RunningHasProducer == state.isRunning => gen # GenIdle

----------------------------------------------------------------------------
\* the vertex set, the edge set and the edge weights of a graph
Structure(g) ==
    [nodes |-> NodeIds(g),
     edges |-> {[id |-> e.id, from |-> e.from, to |-> e.to, weight |-> e.weight] :
                    e \in Range(g.edges)}]

\* the step names only vertices and edges of the graph
NamesLive(step, g) ==
    step # NoStep =>
        /\ step.nodeId # Null => step.nodeId \in NodeIds(g)
        /\ step.edgeId # Null => step.edgeId \in EdgeIds(g)

(* C40: while isRunning is true no handler of the user interface changes   *)
(* the vertex set, the edge set or an edge weight, so every step applied   *)
(* during a run names only vertices and edges of the live graph.           *)
C40_NoEditWhileRunning ==
    [][state.isRunning =>
          /\ Structure(state'.graph) = Structure(state.graph)
          /\ lastAction' = "tick" => NamesLive(state'.currentStep, state'.graph)]_vars

====
